---- MODULE Spec2Model ----
(***************************************************************************)
(* A model of edxlearndot: the Learndot API client (edxlearndot/learndot.py)*)
(* with its enrolment sorting, its cache, its retry policy and the         *)
(* EnrolmentStatusLog table (edxlearndot/models.py).                       *)
(*                                                                         *)
(* Python values are modelled as follows.                                  *)
(*   str        a sequence of code points (naturals), so that ==, <, "in"  *)
(*              and format() are computed as Python computes them;         *)
(*   None       NoneStr where a str is expected, None where an int is;     *)
(*   dict       a TLA+ record; a key the dict lacks is a field the record  *)
(*              lacks (DOMAIN);                                            *)
(*   a call     a record [exc, val, msg]: exc = "none" when the call       *)
(*              returns val, otherwise exc is the class of the exception   *)
(*              raised and msg is its str().                               *)
(***************************************************************************)
EXTENDS Integers, Sequences, FiniteSets, TLC

VARIABLES
    settings,       \* django.conf.settings: the LEARNDOT_* attributes set
    remote,         \* the Learndot service: the JSON its searches answer
    cache,          \* django.core.cache.cache: key -> cached ID
    status_log,     \* the EnrolmentStatusLog table: a set of rows
    call,           \* the client call in progress, with its attempt number
    last,           \* the client call that ended last, with what it did
    sort_input,     \* the enrolment_list handed to sort_enrolments_by_expiry
    sort_output,    \* what the call did: NotCalled, or its [exc, val, msg]
    remote_status,  \* the Learndot service: enrolment ID -> status it holds
    task,           \* the handler or command that runs, with its position
    compare_input,  \* the <<t1, t2>> handed to compare_enrolment_sort_keys
    compare_output, \* what the call did: NotCalled, or its [exc, val, msg]
    callers,        \* the set_enrolment_status calls of concurrent workers
    mapping_table   \* the CourseMapping table: a set of rows

vars == <<settings, remote, cache, status_log, call, last, sort_input,
          sort_output, remote_status, task, compare_input, compare_output,
          callers, mapping_table>>

\* ------------------------------------------------------------------ bounds

\* The longest enrolment list sorted.
MaxEnrolments == 3

\* ------------------------------------------------------------- Python str

\* None, where a str is expected (no str holds the code point 0 here).
NoneStr == <<0>>

\* x or y, on str-or-None values: None and "" are falsy.
StrOr(x, y) == IF x = NoneStr \/ x = <<>> THEN y ELSE x

\* a < b on str: lexicographic by code point, a proper prefix being smaller.
RECURSIVE StrLess(_, _)
StrLess(a, b) ==
    IF b = <<>> THEN FALSE
    ELSE IF a = <<>> THEN TRUE
    ELSE IF Head(a) # Head(b) THEN Head(a) < Head(b)
    ELSE StrLess(Tail(a), Tail(b))

\* needle in haystack, on str.
RECURSIVE StrContains(_, _)
StrContains(haystack, needle) ==
    IF Len(haystack) < Len(needle) THEN FALSE
    ELSE IF SubSeq(haystack, 1, Len(needle)) = needle THEN TRUE
    ELSE StrContains(Tail(haystack), needle)

\* str(n) for a natural number n.
RECURSIVE StrOfInt(_)
StrOfInt(n) ==
    IF n < 10 THEN <<48 + n>>
    ELSE StrOfInt(n \div 10) \o <<48 + (n % 10)>>

\* s.split(sep) for a one-character separator with code point sep.
RECURSIVE StrSplit(_, _)
StrSplit(s, sep) ==
    LET hits == {i \in 1..Len(s) : s[i] = sep}
    IN  IF hits = {} THEN <<s>>
        ELSE LET i == CHOOSE j \in hits : \A k \in hits : j <= k
             IN  <<SubSeq(s, 1, i - 1)>> \o StrSplit(SubSeq(s, i + 1, Len(s)), sep)

\* s.isdigit()
IsDigits(s) == s # <<>> /\ \A i \in 1..Len(s) : s[i] \in 48..57

\* int(s) for a str of at most nine decimal digits.
RECURSIVE IntOfStr(_)
IntOfStr(s) ==
    IF s = <<>> THEN 0
    ELSE 10 * IntOfStr(SubSeq(s, 1, Len(s) - 1)) + (s[Len(s)] - 48)

\* ------------------------------------------------------ dateutil.parser

Returned(v) == [exc |-> "none", val |-> v, msg |-> <<>>]
Raised(e, m) == [exc |-> e, val |-> <<>>, msg |-> m]

\* "Unknown string format: ", "Python int too large to convert to C long"
\* and the like: text without a digit, cut to its first letter.
Text_UnknownStringFormat == <<85>>
Text_IntTooLarge == <<80>>

DaysInMonth(y, m) ==
    IF m = 2
    THEN (IF (y % 4 = 0 /\ y % 100 # 0) \/ y % 400 = 0 THEN 29 ELSE 28)
    ELSE IF m \in {4, 6, 9, 11} THEN 30 ELSE 31

\* dateutil.parser.parse(ds), on the date strings of this model: a string
\* "Y-M-D" of three digit runs is the date <<Y, M, D>>, zero padded or not;
\* a year that does not fit a C long raises OverflowError; everything else
\* that is no date raises ValueError.  (Timestamps are cut to their date.)
dateutil_parse(ds) ==
    LET parts == StrSplit(ds, 45)
    IN  IF Len(parts) # 3 \/ \E i \in 1..3 : ~IsDigits(parts[i])
        THEN Raised("ValueError", Text_UnknownStringFormat \o ds)
        ELSE IF Len(parts[1]) > 19
        THEN Raised("OverflowError", Text_IntTooLarge)
        ELSE IF Len(parts[1]) > 4 \/ Len(parts[2]) > 2 \/ Len(parts[3]) > 2
        THEN Raised("ValueError", Text_UnknownStringFormat \o ds)
        ELSE LET y == IntOfStr(parts[1])
                 m == IntOfStr(parts[2])
                 d == IntOfStr(parts[3])
             IN  IF y < 1 \/ m \notin 1..12 \/ d < 1 \/ d > DaysInMonth(y, m)
                 THEN Raised("ValueError", Text_UnknownStringFormat \o ds)
                 ELSE Returned(<<y, m, d>>)

\* --------------------------------------------------- enrolment sorting

\* cmp with its operands exchanged: descending order.
cmp_Reversed(a, b) ==
    (IF StrLess(a, b) THEN 1 ELSE 0) - (IF StrLess(b, a) THEN 1 ELSE 0)

\* cmp(a, b) on str.
cmp(a, b) ==
    (IF StrLess(b, a) THEN 1 ELSE 0) - (IF StrLess(a, b) THEN 1 ELSE 0)

\* e.get(k) for a dict e whose values are str or None.
DictGet(e, k) == IF k \in DOMAIN e THEN e[k] ELSE NoneStr

\* The key taken without parsing its dates.
ValidateKey_Unchecked(key, i) == Returned(key)

\* The validation loop over the key, from position i on: what the first
\* failing dateutil.parser.parse raises, or the key.
RECURSIVE ValidateKey(_, _)
ValidateKey(key, i) ==
    IF i > Len(key) THEN Returned(key)
    ELSE IF key[i] # <<>> /\ dateutil_parse(key[i]).exc # "none"
    THEN dateutil_parse(key[i])
    ELSE ValidateKey(key, i + 1)

\* A key whose first date falls back to modified and created.
extract_enrolment_sort_key_Fallback(e) ==
    LET fallback == StrOr(DictGet(e, "modified"),
                          StrOr(DictGet(e, "created"), <<>>))
    IN  ValidateKey(<<StrOr(DictGet(e, "expiryDate"), fallback), <<>> >>, 1)

\* A key whose second date is created before modified.
extract_enrolment_sort_key_CreatedFirst(e) ==
    ValidateKey(<< StrOr(DictGet(e, "expiryDate"), <<>>),
                   StrOr(DictGet(e, "created"),
                         StrOr(DictGet(e, "modified"), <<>>)) >>, 1)

extract_enrolment_sort_key(e) ==
    LET key == << StrOr(DictGet(e, "expiryDate"), <<>>),
                  StrOr(DictGet(e, "modified"),
                        StrOr(DictGet(e, "created"), <<>>)) >>
    IN  ValidateKey(key, 1)

\* The length of the shorter tuple.
Max_Shorter(a, b) == IF a >= b THEN b ELSE a

Max(a, b) == IF a >= b THEN a ELSE b

\* The loop of compare_enrolment_sort_keys from position i (1-based) on.
RECURSIVE CompareFrom(_, _, _)
CompareFrom(t1, t2, i) ==
    IF i > Max(Len(t1), Len(t2)) THEN 0
    ELSE LET ds1 == IF i <= Len(t1) THEN t1[i] ELSE <<>>
             ds2 == IF i <= Len(t2) THEN t2[i] ELSE <<>>
         IN  IF ds1 = <<>> /\ ds2 # <<>> THEN 1
             ELSE IF ds1 # <<>> /\ ds2 = <<>> THEN -1
             ELSE IF cmp(ds1, ds2) # 0 THEN cmp(ds1, ds2)
             ELSE CompareFrom(t1, t2, i + 1)

\* The plain comparison of the two tuples: an empty date sorts first.
compare_enrolment_sort_keys_Plain(t1, t2) ==
    IF cmp(t1[1], t2[1]) # 0 THEN cmp(t1[1], t2[1]) ELSE cmp(t1[2], t2[2])

compare_enrolment_sort_keys(t1, t2) == CompareFrom(t1, t2, 1)

extract_and_compare_enrolment_sort_keys(enrolment1, enrolment2) ==
    LET enrolment1_expiry == extract_enrolment_sort_key(enrolment1)
        enrolment2_expiry == extract_enrolment_sort_key(enrolment2)
    IN  IF enrolment1_expiry.exc # "none" THEN enrolment1_expiry
        ELSE IF enrolment2_expiry.exc # "none" THEN enrolment2_expiry
        ELSE Returned(compare_enrolment_sort_keys(enrolment1_expiry.val,
                                                  enrolment2_expiry.val))

\* An insertion that puts x before the elements it compares equal to.
RECURSIVE SortedInsert_BeforeEqual(_, _, _)
SortedInsert_BeforeEqual(s, x, i) ==
    IF i = 0 THEN Returned(<<x>> \o s)
    ELSE LET r == extract_and_compare_enrolment_sort_keys(x, s[i])
         IN  IF r.exc # "none" THEN r
             ELSE IF r.val <= 0 THEN SortedInsert_BeforeEqual(s, x, i - 1)
             ELSE Returned(SubSeq(s, 1, i) \o <<x>> \o SubSeq(s, i + 1, Len(s)))

\* One insertion of sorted(): x goes into the sorted run s, after every
\* element it is not smaller than.  The comparison function is called with
\* the later element first, as list.sort calls it (x < s[i]), and what it
\* raises ends the sort.  i elements of s are still to be compared.
RECURSIVE SortedInsert(_, _, _)
SortedInsert(s, x, i) ==
    IF i = 0 THEN Returned(<<x>> \o s)
    ELSE LET r == extract_and_compare_enrolment_sort_keys(x, s[i])
         IN  IF r.exc # "none" THEN r
             ELSE IF r.val < 0 THEN SortedInsert(s, x, i - 1)
             ELSE Returned(SubSeq(s, 1, i) \o <<x>> \o SubSeq(s, i + 1, Len(s)))

\* sorted(l, key=functools.cmp_to_key(...)): a stable sort; the first n
\* elements of l are sorted.  No element of a list of one is ever compared.
RECURSIVE SortedPrefix(_, _)
SortedPrefix(l, n) ==
    IF n = 0 THEN Returned(<<>>)
    ELSE LET before == SortedPrefix(l, n - 1)
         IN  IF before.exc # "none" THEN before
             ELSE SortedInsert(before.val, l[n], n - 1)

sort_enrolments_by_expiry(enrolment_list) ==
    SortedPrefix(enrolment_list, Len(enrolment_list))

\* ------------------------------------------------------------ settings

\* None, where an int (an ID) is expected.
None == -1

\* Literal text of the messages and URLs.  No literal holds a digit but for
\* the "v2" of the API paths, so each is cut to a few letters and its
\* digits.
\* "The Learndot API key could not be found in your Django settings. ..."
Text_NoApiKey == <<75>>
\* "The Learndot API base URL could not be found in your Django settings. ..."
Text_NoBaseUrl == <<66>>
\* "api/rest/v2/manage/contact/search"
Path_ContactSearch == <<118, 50, 47, 99, 115>>
\* "api/rest/v2/manage/enrolment/search"
Path_EnrolmentSearch == <<118, 50, 47, 101, 115>>
\* "api/rest/v2/manage/enrolment/"
Path_Enrolment == <<118, 50, 47, 101, 47>>

get_api_key(st) ==
    IF "LEARNDOT_API_KEY" \in DOMAIN st
    THEN Returned(st.LEARNDOT_API_KEY)
    ELSE Raised("LearndotAPIException", Text_NoApiKey)

get_api_base_url(st) ==
    IF "LEARNDOT_API_BASE_URL" \in DOMAIN st
    THEN Returned(st.LEARNDOT_API_BASE_URL)
    ELSE Raised("LearndotAPIException", Text_NoBaseUrl)

\* os.path.join(a, b) for a relative b.
os_path_join(a, b) ==
    IF a = <<>> \/ a[Len(a)] = 47 THEN a \o b ELSE a \o <<47>> \o b

get_contact_search_url(st) ==
    LET base == get_api_base_url(st)
    IN  IF base.exc # "none" THEN base
        ELSE Returned(os_path_join(base.val, Path_ContactSearch))

get_enrolment_search_url(st) ==
    LET base == get_api_base_url(st)
    IN  IF base.exc # "none" THEN base
        ELSE Returned(os_path_join(base.val, Path_EnrolmentSearch))

get_enrolment_management_url(st, enrolment_id) ==
    LET base == get_api_base_url(st)
    IN  IF base.exc # "none" THEN base
        ELSE Returned(os_path_join(base.val,
                                   Path_Enrolment \o StrOfInt(enrolment_id)))

\* The arguments of requests.post, evaluated in order: the URL, then the
\* headers.  Returns the URL, or what get_api_base_url or get_api_key raised.
PostArguments(url, st) ==
    IF url.exc # "none" THEN url
    ELSE IF get_api_key(st).exc # "none" THEN get_api_key(st)
    ELSE url

\* ------------------------------------------------------------ requests

\* A response is [status, json]; status 0 stands for requests.post raising
\* requests.exceptions.ConnectionError instead of returning a response.
\* " Client Error: ... for url: " / " Server Error: ... for url: "
Text_ErrorForUrl == <<32, 69, 32>>
\* str() of a ConnectionError
Text_ConnectionError == <<67>>

\* A raise_for_status that takes every response.
raise_for_status_Lenient(response, url) == Returned(response)

\* response.raise_for_status(): str() of the HTTPError it raises.
raise_for_status(response, url) ==
    IF response.status \in 400..599
    THEN Raised("HTTPError",
                StrOfInt(response.status) \o Text_ErrorForUrl \o url)
    ELSE Returned(response)

\* response.json()["results"]
JsonResults(response) ==
    IF "results" \in DOMAIN response.json
    THEN Returned(response.json.results)
    ELSE Raised("KeyError", <<>>)

\* ------------------------------------------------------------ retrying

\* LearndotAPIException.retry_match
retry_match(exception) ==
    /\ exception.exc = "LearndotAPIException"
    /\ \/ StrContains(exception.msg, StrOfInt(429))
       \/ StrContains(exception.msg, StrOfInt(504))
       \/ StrContains(exception.msg, StrOfInt(502))

\* settings.LEARNDOT_RETRY_MAX_ATTEMPTS (10 where the settings give none): the
\* attempts @retry makes, kept small here.
LEARNDOT_RETRY_MAX_ATTEMPTS == 3

\* @retry giving up one attempt early.
Retrying_OneShort(attempt, n) ==
    IF attempt.exc = "none" THEN "return"
    ELSE IF ~retry_match(attempt) THEN "raise"
    ELSE IF n + 1 >= LEARNDOT_RETRY_MAX_ATTEMPTS THEN "raise"
    ELSE "retry"

\* What @retry does with the outcome of attempt number n: "return" its
\* value, "raise" its exception, or sleep and "retry".
Retrying(attempt, n) ==
    IF attempt.exc = "none" THEN "return"
    ELSE IF ~retry_match(attempt) THEN "raise"
    ELSE IF n >= LEARNDOT_RETRY_MAX_ATTEMPTS THEN "raise"
    ELSE "retry"

\* --------------------------------------------------------------- cache

\* A cache that never has the key.
cache_get_Miss(c, key) == None

cache_get(c, key) == IF key \in DOMAIN c THEN c[key] ELSE None
cache_set(c, key, value) == (key :> value) @@ c

\* 'edxlearndot-contact-{}-{}'.format(hashed_email, user.id); the MD5 hex
\* digest of the email is taken to be the email (no two emails collide).
contact_cache_key(user) ==
    <<99, 45>> \o user.email \o <<45>> \o StrOfInt(user.id)

\* 'edxlearndot-enrolment-{}-{}'.format(contact_id, component_id)
enrolment_cache_key(contact_id, component_id) ==
    <<101, 45>> \o StrOfInt(contact_id) \o <<45>> \o StrOfInt(component_id)

\* -------------------------------------------------- EnrolmentStatusLog

\* A log that is never found to hold the enrolment.
objects_get_Forgetful(log, enrolment_id) == Raised("DoesNotExist", <<>>)

\* EnrolmentStatusLog.objects.get(learndot_enrolment_id=enrolment_id)
objects_get(log, enrolment_id) ==
    LET rows == {r \in log : r.learndot_enrolment_id = enrolment_id}
    IN  IF rows = {} THEN Raised("DoesNotExist", <<>>)
        ELSE IF Cardinality(rows) > 1 THEN Raised("MultipleObjectsReturned", <<>>)
        ELSE Returned(CHOOSE r \in rows : TRUE)

\* The row a new EnrolmentStatusLog has: status is a TextField, "" by default.
NewRow(enrolment_id) == [learndot_enrolment_id |-> enrolment_id, status |-> ""]

\* EnrolmentStatusLog.objects.get_or_create(learndot_enrolment_id=...): the
\* table after it.
objects_get_or_create(log, enrolment_id) ==
    IF objects_get(log, enrolment_id).exc = "DoesNotExist"
    THEN log \cup {NewRow(enrolment_id)}
    ELSE log

\* A save that adds a row and keeps the old one.
objects_save_Appended(log, enrolment_id, status) ==
    log \cup {[learndot_enrolment_id |-> enrolment_id, status |-> status]}

\* A save that writes nothing.
objects_save_Unsaved(log, enrolment_id, status) == log

\* enrolment_status_log.status = status; enrolment_status_log.save(): the
\* row with this primary key is updated.
objects_save(log, enrolment_id, status) ==
    {r \in log : r.learndot_enrolment_id # enrolment_id}
        \cup {[learndot_enrolment_id |-> enrolment_id, status |-> status]}

\* ----------------------------------------------------- EnrolmentStatus

\* The attributes of the class EnrolmentStatus.
EnrolmentStatusAttributes ==
    [a \in {"APPROVED", "CANCELLED", "CONFIRMED", "FAILED", "IN_PROGRESS",
            "MISSED", "PASSED", "TENTATIVE"} |-> a]
    @@ [a \in {"is_valid", "__doc__", "__module__"} |-> "(not the name)"]

\* Any status taken as valid.
is_valid_Any(status) == TRUE

is_valid(status) ==
    /\ status \in DOMAIN EnrolmentStatusAttributes
    /\ EnrolmentStatusAttributes[status] = status

\* str.format of a status: every status of this model is a word without
\* digits, cut to its first two letters.
StatusText(status) ==
    CASE status = "PASSED" -> <<80, 65>>
      [] status = "IN_PROGRESS" -> <<73, 78>>
      [] status = "FAILED" -> <<70, 65>>
      [] status = "CANCELLED" -> <<67, 65>>
      [] OTHER -> <<63, 63>>

\* ------------------------------------------------- LearndotAPIClient

\* Each operation below is one run of the method's body (one attempt of
\* @retry) in the state st = [settings, cache, status_log], given the
\* response the remote service gives if it is asked.  It yields the call's
\* [exc, val, msg], the state it leaves and the number of requests sent.
Outcome(r, st, posts) ==
    [exc |-> r.exc, val |-> IF r.exc = "none" THEN r.val ELSE None, msg |-> r.msg,
     cache |-> st.cache, status_log |-> st.status_log, posts |-> posts]

\* "Error looking up Learndot contact for user {}: {}"
Text_ContactError == <<69, 99, 32>>
\* "Error looking up Learndot enrolment for contact {}, component {}: {}"
Text_EnrolmentError == <<69, 101, 32>>
\* "Multiple enrolments exist for contact {}, component {}, but they could
\* not be sorted ... The error raised while sorting was: {}"
Text_Unsortable == <<77, 32>>
\* "Enrolment_id can not be None"
Text_NoEnrolmentId == <<78>>
\* "Invalid enrolment status \"{}\"."
Text_InvalidStatus == <<73, 32>>
\* "Error trying to set status of enrolment {} to {}: {}"
Text_StatusError == <<69, 115, 32>>
\* ", component ", " to ", ": "
Text_Sep == <<58, 32>>

\* The end of a lookup with the cache written whatever was found.
CacheAndReturn_Always(st, key, id) ==
    Outcome(Returned(id), [st EXCEPT !.cache = cache_set(st.cache, key, id)], 1)

\* if id is not None: cache.set(key, id); then return id: the end of the
\* two lookups, after their request.
CacheAndReturn(st, key, id) ==
    IF id # None
    THEN Outcome(Returned(id),
                 [st EXCEPT !.cache = cache_set(st.cache, key, id)], 1)
    ELSE Outcome(Returned(None), st, 1)

\* The contacts whose email holds the user's: what the search itself gives.
ContactsWithEmail_Similar(contacts, email) ==
    SelectSeq(contacts, LAMBDA c : StrContains(c.email, email))

\* The contacts whose email is the user's, in order.
RECURSIVE ContactsWithEmail(_, _)
ContactsWithEmail(contacts, email) ==
    IF contacts = <<>> THEN <<>>
    ELSE (IF Head(contacts).email = email THEN <<Head(contacts)>> ELSE <<>>)
         \o ContactsWithEmail(Tail(contacts), email)

get_contact_id(st, user, response) ==
    LET contact_cache_key_ == contact_cache_key(user)
        cached_contact_id == cache_get(st.cache, contact_cache_key_)
        url == PostArguments(get_contact_search_url(st.settings), st.settings)
        status == raise_for_status(response, url.val)
        results == JsonResults(response)
        contacts == ContactsWithEmail(results.val, user.email)
        contact_id == IF Len(contacts) = 1 THEN contacts[1].id ELSE None
    IN  IF cached_contact_id # None
        THEN Outcome(Returned(cached_contact_id), st, 0)
        ELSE IF url.exc # "none" THEN Outcome(url, st, 0)
        ELSE IF response.status = 0
        THEN Outcome(Raised("ConnectionError", Text_ConnectionError), st, 1)
        ELSE IF status.exc # "none"
        THEN Outcome(Raised("LearndotAPIException",
                            Text_ContactError \o user.username \o Text_Sep
                                \o status.msg), st, 1)
        ELSE IF results.exc # "none" THEN Outcome(results, st, 1)
        ELSE IF Len(contacts) > 1
                /\ \E i \in 1..Len(contacts) :
                       "_displayName_" \notin DOMAIN contacts[i]
        THEN Outcome(Raised("KeyError", <<>>), st, 1)
        ELSE CacheAndReturn(st, contact_cache_key_, contact_id)

\* The results with the cancelled ones left in.
NotCancelled_All(results) == results

\* [e for e in results if e["status"] != "CANCELLED"]
RECURSIVE NotCancelled(_)
NotCancelled(results) ==
    IF results = <<>> THEN <<>>
    ELSE (IF Head(results).status # "CANCELLED" THEN <<Head(results)>> ELSE <<>>)
         \o NotCancelled(Tail(results))

get_enrolment_id(st, contact_id, component_id, response) ==
    LET enrolment_cache_key_ == enrolment_cache_key(contact_id, component_id)
        cached_enrolment_id == cache_get(st.cache, enrolment_cache_key_)
        url == PostArguments(get_enrolment_search_url(st.settings), st.settings)
        status == raise_for_status(response, url.val)
        results == JsonResults(response)
        enrolments == NotCancelled(results.val)
        sorted == sort_enrolments_by_expiry(enrolments)
        enrolment_id ==
            IF Len(enrolments) = 1 THEN enrolments[1].id
            ELSE IF Len(enrolments) > 1 THEN sorted.val[Len(sorted.val)].id
            ELSE None
    IN  IF cached_enrolment_id # None
        THEN Outcome(Returned(cached_enrolment_id), st, 0)
        ELSE IF url.exc # "none" THEN Outcome(url, st, 0)
        ELSE IF response.status = 0
        THEN Outcome(Raised("ConnectionError", Text_ConnectionError), st, 1)
        ELSE IF status.exc # "none"
        THEN Outcome(Raised("LearndotAPIException",
                            Text_EnrolmentError \o StrOfInt(contact_id)
                                \o Text_Sep \o StrOfInt(component_id)
                                \o Text_Sep \o status.msg), st, 1)
        ELSE IF results.exc # "none" THEN Outcome(results, st, 1)
        ELSE IF Len(enrolments) > 1 /\ sorted.exc # "none"
        THEN Outcome(Raised("LearndotAPIException",
                            Text_Unsortable \o StrOfInt(contact_id)
                                \o Text_Sep \o StrOfInt(component_id)
                                \o Text_Sep \o sorted.msg), st, 1)
        ELSE CacheAndReturn(st, enrolment_cache_key_, enrolment_id)

\* The try block that records the update, given what the database does:
\* "ok", or the exception class its first statement raises.
RecordStatus(st, enrolment_id, status, db) ==
    IF db = "ok"
    THEN Outcome(Returned(None),
                 [st EXCEPT !.status_log =
                     objects_save(objects_get_or_create(st.status_log,
                                                        enrolment_id),
                                  enrolment_id, status)], 1)
    ELSE IF db \in {"IntegrityError", "MultipleObjectsReturned"}
    THEN Outcome(Returned(None), st, 1)
    ELSE Outcome(Raised(db, <<>>), st, 1)

set_enrolment_status(st, enrolment_id, status, unconditional, response, db) ==
    LET enrolment_status == objects_get(st.status_log, enrolment_id)
        url == PostArguments(get_enrolment_management_url(st.settings, enrolment_id),
                             st.settings)
        http == raise_for_status(response, url.val)
    IN  IF enrolment_id = None \/ enrolment_id = 0
        THEN Outcome(Raised("LearndotAPIException", Text_NoEnrolmentId), st, 0)
        ELSE IF ~is_valid(status)
        THEN Outcome(Raised("LearndotAPIException",
                            Text_InvalidStatus \o StatusText(status)), st, 0)
        ELSE IF ~unconditional /\ enrolment_status.exc = "MultipleObjectsReturned"
        THEN Outcome(enrolment_status, st, 0)
        ELSE IF ~unconditional /\ enrolment_status.exc = "none"
                /\ enrolment_status.val.status = status
        THEN Outcome(Returned(None), st, 0)
        ELSE IF url.exc # "none" THEN Outcome(url, st, 0)
        ELSE IF response.status = 0
        THEN Outcome(Raised("ConnectionError", Text_ConnectionError), st, 1)
        ELSE IF http.exc # "none"
        THEN Outcome(Raised("LearndotAPIException",
                            Text_StatusError \o StrOfInt(enrolment_id)
                                \o Text_Sep \o StatusText(status)
                                \o Text_Sep \o http.msg), st, 1)
        ELSE RecordStatus(st, enrolment_id, status, db)

\* ------------------------------------------- inputs of the sorting model

\* "2018-01-01", "2018-10-01": Learndot's zero padded dates.
Date_2018_01_01 == <<50, 48, 49, 56, 45, 48, 49, 45, 48, 49>>
Date_2018_10_01 == <<50, 48, 49, 56, 45, 49, 48, 45, 48, 49>>
Date_2018_03_01 == <<50, 48, 49, 56, 45, 48, 51, 45, 48, 49>>
\* "2018-2-01": a date dateutil parses, not zero padded.
Date_2018_2_01 == <<50, 48, 49, 56, 45, 50, 45, 48, 49>>
\* "HA! NO"
Date_HA_NO == <<72, 65, 33, 32, 78, 79>>
\* "99999999999999999999-01-01"
Date_Ridiculous == [i \in 1..20 |-> 57] \o <<45, 48, 49, 45, 48, 49>>

\* The date fields of the enrolment dicts sorted (the id is added below).
SortShapes ==
    { [expiryDate |-> d] :
        d \in {Date_2018_01_01, Date_2018_10_01, Date_2018_2_01,
               Date_HA_NO, Date_Ridiculous, <<>>, NoneStr} }
    \cup { [created |-> Date_2018_03_01],
           [modified |-> Date_2018_01_01],
           [modified |-> Date_2018_2_01],
           [created |-> Date_2018_01_01, modified |-> Date_2018_10_01],
           [expiryDate |-> NoneStr, modified |-> Date_HA_NO] }
    \cup { [x \in {} |-> <<>>] }

\* Enrolment lists of n dicts with the ids 1..n, in list order.
EnrolmentLists(n) ==
    { [i \in 1..n |-> [id |-> i] @@ shape[i]] :
        shape \in [1..n -> SortShapes] }

NotCalled == [exc |-> "not called", val |-> <<>>, msg |-> <<>>]

\* ------------------------------------------- inputs of the client model

\* "http://l": the base URL, and "k": the API key.
SettingsConfigured ==
    [LEARNDOT_API_KEY |-> <<107>>,
     LEARNDOT_API_BASE_URL |-> <<104, 116, 116, 112, 58, 47, 47, 108>>]
SettingsNoKey == [LEARNDOT_API_BASE_URL |-> SettingsConfigured.LEARNDOT_API_BASE_URL]
SettingsNoUrl == [LEARNDOT_API_KEY |-> SettingsConfigured.LEARNDOT_API_KEY]

\* "t@g": the email of the user "test" of the tests; "xt@g" and "t@g.c" hold
\* it.
Email_test == <<116, 64, 103>>
Email_xtest == <<120>> \o Email_test
Email_testc == Email_test \o <<46, 99>>
User_test == [id |-> 1, email |-> Email_test, username |-> <<116>>]

Contact(id, email) == [id |-> id, email |-> email, _displayName_ |-> <<84>>]
Enrolment(id, status, dates) == [id |-> id, status |-> status] @@ dates
NoDates == [x \in {} |-> <<>>]

\* The JSON of a response that is not {"results": [...]}.
JsonMalformed == [detail |-> <<>>]
JsonOf(results) == [results |-> results]

\* What one request meets: requests.post raising ConnectionError (0), or
\* the HTTP status of the response: those of the tests, with 200.
HttpStatuses == {0, 200, 400, 404, 429, 502, 504}

\* The response with this status: the service's JSON comes with a 200.
Response(status, json) ==
    [status |-> status, json |-> IF status = 200 THEN json ELSE JsonMalformed]

\* What the database does when the status log is written.
DbOutcomes == {"ok", "IntegrityError", "OperationalError"}

\* A service with one contact for the user and one enrolment, as in the
\* tests' mock, and one whose two enrolments cannot be sorted.
RemoteOfTests ==
    [contact_search |-> JsonOf(<<Contact(1, Email_test)>>),
     enrolment_search |-> JsonOf(<<Enrolment(1, "IN_PROGRESS", NoDates)>>)]
RemoteUnsortable ==
    [contact_search |-> JsonOf(<<>>),
     enrolment_search |->
         JsonOf(<<Enrolment(1, "IN_PROGRESS", [expiryDate |-> Date_HA_NO]),
                  Enrolment(429, "IN_PROGRESS", NoDates)>>)]

ContactIds == {1, 429}
ComponentIds == {2}
EnrolmentIds == {None, 1, 429}
Statuses == {"PASSED", "IN_PROGRESS", "BUNGLED"}

\* ------------------------------------------------------ the client model

\* No call is in progress; no call has ended since the last one began.
Idle == [op |-> "idle"]
NoCall == [op |-> "none"]

\* No handler or command runs, and none has run.
NoTask == [name |-> "none", pc |-> "done"]

InitClient(settings_, remotes) ==
    /\ settings \in settings_
    /\ remote \in remotes
    /\ cache = [x \in {} |-> None]
    /\ status_log = {}
    /\ call = Idle
    /\ last = NoCall
    /\ sort_input = <<>>
    /\ sort_output = NotCalled
    /\ remote_status = [x \in {} |-> ""]
    /\ task = NoTask
    /\ compare_input = <<>>
    /\ compare_output = NotCalled
    /\ callers = <<>>
    /\ mapping_table = {}

State == [settings |-> settings, cache |-> cache, status_log |-> status_log]

\* Attempt number n of the call op(args) ran and gave r, the attempts
\* before it having sent `posts` requests, logged `warnings` warnings and
\* (transient) met nothing but HTTP 429, 502 and 504.  @retry then returns
\* or raises, and the call has ended, or sleeps LEARNDOT_RETRY_WAIT before
\* attempt n + 1.  retry_match logs its warning whenever it answers True.
\* http is the status the attempt's request met, db what the database did.
\* The service holds the status of a request it accepted.
Attempted(op, args, n, before, r, http, db) ==
    LET posts == before.posts + r.posts
        warnings == before.warnings
                        + (IF r.exc # "none" /\ retry_match(r) THEN 1 ELSE 0)
        transient == r.posts = 1 /\ http \in {429, 502, 504}
    IN  /\ cache' = r.cache
        /\ status_log' = r.status_log
        /\ IF Retrying(r, n) = "retry"
           THEN /\ call' = [op |-> op, args |-> args, attempt_number |-> n + 1,
                            posts |-> posts, warnings |-> warnings,
                            transient |-> before.transient /\ transient]
                /\ last' = NoCall
           ELSE /\ call' = Idle
                /\ last' = [op |-> op, args |-> args, attempts |-> n,
                            posts |-> posts, warnings |-> warnings,
                            transient_before |-> before.transient,
                            http |-> IF r.posts = 1 THEN http ELSE -1,
                            db |-> IF r.posts = 1 THEN db ELSE "unused",
                            exc |-> r.exc, val |-> r.val, msg |-> r.msg]
        /\ remote_status' =
               IF op = "set_enrolment_status" /\ r.posts = 1 /\ http \in 200..399
               THEN (args.enrolment_id :> args.status) @@ remote_status
               ELSE remote_status
        /\ UNCHANGED <<settings, remote, sort_input, sort_output,
                       compare_input, compare_output, callers, mapping_table>>

\* Before the first attempt.
Fresh == [posts |-> 0, warnings |-> 0, transient |-> TRUE]

\* get_contact_id(user) is called: its first attempt.
Call_get_contact_id(users, statuses) ==
    /\ call = Idle
    /\ task.pc = "done"
    /\ UNCHANGED task
    /\ \E user \in users, http \in statuses :
           Attempted("get_contact_id", [user |-> user], 1, Fresh,
                     get_contact_id(State, user,
                                    Response(http, remote.contact_search)),
                     http, "unused")

\* @retry's next attempt of the get_contact_id in progress.
Retry_get_contact_id(statuses) ==
    /\ call.op = "get_contact_id"
    /\ UNCHANGED task
    /\ \E http \in statuses :
           Attempted(call.op, call.args, call.attempt_number, call,
                     get_contact_id(State, call.args.user,
                                    Response(http, remote.contact_search)),
                     http, "unused")

Call_get_enrolment_id(contact_ids, component_ids, statuses) ==
    /\ call = Idle
    /\ task.pc = "done"
    /\ UNCHANGED task
    /\ \E contact_id \in contact_ids, component_id \in component_ids,
          http \in statuses :
           Attempted("get_enrolment_id",
                     [contact_id |-> contact_id, component_id |-> component_id],
                     1, Fresh,
                     get_enrolment_id(State, contact_id, component_id,
                                      Response(http, remote.enrolment_search)),
                     http, "unused")

Retry_get_enrolment_id(statuses) ==
    /\ call.op = "get_enrolment_id"
    /\ UNCHANGED task
    /\ \E http \in statuses :
           Attempted(call.op, call.args, call.attempt_number, call,
                     get_enrolment_id(State, call.args.contact_id,
                                      call.args.component_id,
                                      Response(http, remote.enrolment_search)),
                     http, "unused")

\* What the remote service and then the database may do in one attempt of
\* set_enrolment_status: the database is reached after a response that
\* raise_for_status accepts, and not otherwise.
StatusEnvironment(statuses, dbs) ==
    { <<http, "unused">> : http \in statuses \ {200} }
    \cup { <<http, db>> : http \in statuses \cap {200}, db \in dbs }

Call_set_enrolment_status(enrolment_ids, statuses_, flags, statuses, dbs) ==
    /\ call = Idle
    /\ task.pc = "done"
    /\ UNCHANGED task
    /\ \E enrolment_id \in enrolment_ids, status \in statuses_,
          unconditional \in flags, env \in StatusEnvironment(statuses, dbs) :
           Attempted("set_enrolment_status",
                     [enrolment_id |-> enrolment_id, status |-> status,
                      unconditional |-> unconditional],
                     1, Fresh,
                     set_enrolment_status(State, enrolment_id, status,
                                          unconditional,
                                          Response(env[1], JsonMalformed),
                                          env[2]),
                     env[1], env[2])

Retry_set_enrolment_status(statuses, dbs) ==
    /\ call.op = "set_enrolment_status"
    /\ UNCHANGED task
    /\ \E env \in StatusEnvironment(statuses, dbs) :
           Attempted(call.op, call.args, call.attempt_number, call,
                     set_enrolment_status(State, call.args.enrolment_id,
                                          call.args.status,
                                          call.args.unconditional,
                                          Response(env[1], JsonMalformed),
                                          env[2]),
                     env[1], env[2])

\* --- the three operations under @retry, with any settings

Init ==
    InitClient({SettingsConfigured, SettingsNoKey, SettingsNoUrl},
               {RemoteOfTests, RemoteUnsortable})

Next ==
    \/ Call_get_contact_id({User_test}, HttpStatuses)
    \/ Retry_get_contact_id(HttpStatuses)
    \/ Call_get_enrolment_id(ContactIds, ComponentIds, HttpStatuses)
    \/ Retry_get_enrolment_id(HttpStatuses)
    \/ Call_set_enrolment_status(EnrolmentIds, {"PASSED", "BUNGLED"}, BOOLEAN,
                                 HttpStatuses, {"ok"})
    \/ Retry_set_enrolment_status(HttpStatuses, {"ok"})

Spec == Init /\ [][Next]_vars

\* --- set_enrolment_status and the status log

InitStatus == InitClient({SettingsConfigured}, {RemoteOfTests})

NextStatus ==
    \/ Call_set_enrolment_status(EnrolmentIds, Statuses, BOOLEAN,
                                 HttpStatuses, DbOutcomes)
    \/ Retry_set_enrolment_status(HttpStatuses, DbOutcomes)

SpecStatus == InitStatus /\ [][NextStatus]_vars

\* --- the two lookups, with what the searches may answer

MaxContacts == 3

\* Contacts with the user's email, and with emails that hold it.
LookupContacts ==
    {Contact(1, Email_test), Contact(2, Email_test), Contact(3, Email_xtest),
     Contact(4, Email_testc)}

ContactLists == UNION {[1..n -> LookupContacts] : n \in 0..MaxContacts}

\* The status and dates of the enrolments found: one cancelled, with the
\* latest expiry date of all, and the others in progress.
LookupShapes ==
    { [status |-> "IN_PROGRESS", expiryDate |-> d] :
        d \in {Date_2018_01_01, Date_2018_10_01, Date_HA_NO, Date_Ridiculous} }
    \cup { [status |-> "IN_PROGRESS"],
           [status |-> "IN_PROGRESS", modified |-> Date_2018_01_01],
           [status |-> "CANCELLED", expiryDate |-> Date_2018_10_01] }

LookupEnrolmentLists ==
    UNION { { [i \in 1..n |-> [id |-> i] @@ shape[i]] :
                shape \in [1..n -> LookupShapes] } : n \in 0..MaxEnrolments }

LookupRemotes ==
    { [contact_search |-> JsonOf(contacts), enrolment_search |-> JsonOf(<<>>)] :
        contacts \in ContactLists }
    \cup { [contact_search |-> JsonOf(<<>>), enrolment_search |-> JsonOf(enrolments)] :
             enrolments \in LookupEnrolmentLists }
    \cup { [contact_search |-> JsonMalformed, enrolment_search |-> JsonMalformed] }

\* What a request of a lookup meets here: a failure that is retried, two
\* that are not, and the service's answer.
LookupStatuses == {0, 200, 404, 429}

InitLookup == InitClient({SettingsConfigured}, LookupRemotes)

NextLookup ==
    \/ Call_get_contact_id({User_test}, LookupStatuses)
    \/ Retry_get_contact_id(LookupStatuses)
    \/ Call_get_enrolment_id({1}, ComponentIds, LookupStatuses)
    \/ Retry_get_enrolment_id(LookupStatuses)

SpecLookup == InitLookup /\ [][NextLookup]_vars

\* --- get_enrolment_id over searches that give cancelled enrolments

\* The status and dates of the enrolments found: cancelled ones with dates
\* that cannot be parsed and with the latest date, among others in
\* progress.
CancelledShapes ==
    { [status |-> "CANCELLED", expiryDate |-> d] :
        d \in {Date_2018_10_01, Date_HA_NO, Date_Ridiculous} }
    \cup { [status |-> "IN_PROGRESS", expiryDate |-> d] :
        d \in {Date_2018_01_01, Date_2018_03_01, Date_HA_NO} }

CancelledRemotes ==
    { [contact_search |-> RemoteOfTests.contact_search,
       enrolment_search |->
           JsonOf([i \in DOMAIN shape |-> [id |-> i] @@ shape[i]])] :
        shape \in UNION {[1..n -> CancelledShapes] : n \in 0..MaxEnrolments} }

CancelledStatuses == {200, 404, 429}

InitCancelled == InitClient({SettingsConfigured}, CancelledRemotes)

NextCancelled ==
    \/ Call_get_enrolment_id({1}, ComponentIds, CancelledStatuses)
    \/ Retry_get_enrolment_id(CancelledStatuses)

SpecCancelled == InitCancelled /\ [][NextCancelled]_vars

\* --- the two lookups and the cache, over a service whose data change

\* The service after the contact and the enrolment were replaced.
RemoteReplaced ==
    [contact_search |-> JsonOf(<<Contact(2, Email_test)>>),
     enrolment_search |-> JsonOf(<<Enrolment(3, "IN_PROGRESS", NoDates)>>)]

\* The service with no contact and no enrolment.
RemoteEmpty ==
    [contact_search |-> JsonOf(<<>>), enrolment_search |-> JsonOf(<<>>)]

CacheRemotes == {RemoteOfTests, RemoteReplaced, RemoteEmpty}

\* The service's data change.
Remote_changes(remotes) ==
    /\ call = Idle
    /\ remote' \in remotes \ {remote}
    /\ UNCHANGED <<settings, cache, status_log, call, last, sort_input,
                   sort_output, remote_status, task, compare_input,
                   compare_output, callers, mapping_table>>

\* The cache drops an entry: cache.set gives it the cache's default timeout.
Cache_expires ==
    /\ call = Idle
    /\ \E key \in DOMAIN cache :
           cache' = [k \in DOMAIN cache \ {key} |-> cache[k]]
    /\ UNCHANGED <<settings, remote, status_log, call, last, sort_input,
                   sort_output, remote_status, task, compare_input,
                   compare_output, callers, mapping_table>>

InitCache == InitClient({SettingsConfigured}, CacheRemotes)

NextCache ==
    \/ Call_get_contact_id({User_test}, LookupStatuses)
    \/ Retry_get_contact_id(LookupStatuses)
    \/ Call_get_enrolment_id({1, 2}, ComponentIds, LookupStatuses)
    \/ Retry_get_enrolment_id(LookupStatuses)
    \/ Remote_changes(CacheRemotes)
    \/ Cache_expires

SpecCache == InitCache /\ [][NextCache]_vars

\* ------------------------------------------- the handlers and the command

\* A handler is a task: at "call" it is about to make the call task.op with
\* task.args, at "wait" the call is made and the handler goes on when it
\* has ended, and at "done" the handler has returned (exc "none") or an
\* exception has left it.
Want(t, op, args) == [t EXCEPT !.pc = "call", !.op = op, !.args = args]

Done(t, exc) == [t EXCEPT !.pc = "done", !.exc = exc]

\* The task begins with the call op.
Task(name, op, args, fields) ==
    [name |-> name, pc |-> "call", op |-> op, args |-> args,
     fields |-> fields, errors |-> 0, exc |-> "running"]

\* The call the task has made has ended.
Back(name, op) ==
    /\ task.name = name
    /\ task.pc = "wait"
    /\ task.op = op
    /\ call = Idle

\* A step of a handler that calls nothing.
Quiet ==
    UNCHANGED <<settings, remote, cache, status_log, call, last, sort_input,
                sort_output, remote_status, compare_input, compare_output,
                callers, mapping_table>>

\* The first attempt of the call a handler makes.
Task_get_contact_id(statuses) ==
    /\ task.pc = "call"
    /\ task.op = "get_contact_id"
    /\ call = Idle
    /\ task' = [task EXCEPT !.pc = "wait"]
    /\ \E http \in statuses :
           Attempted("get_contact_id", task.args, 1, Fresh,
                     get_contact_id(State, task.args.user,
                                    Response(http, remote.contact_search)),
                     http, "unused")

Task_get_enrolment_id(statuses) ==
    /\ task.pc = "call"
    /\ task.op = "get_enrolment_id"
    /\ call = Idle
    /\ task' = [task EXCEPT !.pc = "wait"]
    /\ \E http \in statuses :
           Attempted("get_enrolment_id", task.args, 1, Fresh,
                     get_enrolment_id(State, task.args.contact_id,
                                      task.args.component_id,
                                      Response(http, remote.enrolment_search)),
                     http, "unused")

Task_set_enrolment_status(statuses, dbs) ==
    /\ task.pc = "call"
    /\ task.op = "set_enrolment_status"
    /\ call = Idle
    /\ task' = [task EXCEPT !.pc = "wait"]
    /\ \E env \in StatusEnvironment(statuses, dbs) :
           Attempted("set_enrolment_status", task.args, 1, Fresh,
                     set_enrolment_status(State, task.args.enrolment_id,
                                          task.args.status,
                                          task.args.unconditional,
                                          Response(env[1], JsonMalformed),
                                          env[2]),
                     env[1], env[2])

\* A variant of `not` that takes no ID for missing.
Not_Never(x) == FALSE

\* `not x` for an ID x: None and 0 are false.
Not(x) == x = None \/ x = 0

\* The arguments of the calls.
Args_get_contact_id(user) == [user |-> user]

Args_get_enrolment_id(contact_id, component_id) ==
    [contact_id |-> contact_id, component_id |-> component_id]

\* The flag left at its default.
Args_set_enrolment_status_Default(enrolment_id, status, unconditional) ==
    [enrolment_id |-> enrolment_id, status |-> status, unconditional |-> FALSE]

Args_set_enrolment_status(enrolment_id, status, unconditional) ==
    [enrolment_id |-> enrolment_id, status |-> status,
     unconditional |-> unconditional]

\* --- LearndotAPIClient.check_if_enrolment_and_set_status_to_passed

CheckIfEnrolment == "check_if_enrolment_and_set_status_to_passed"

Call_check_if_enrolment_and_set_status_to_passed(contact_ids, component_ids, flags) ==
    /\ call = Idle
    /\ task.pc = "done"
    /\ \E contact_id \in contact_ids, component_id \in component_ids,
          unconditional \in flags :
           task' = Task(CheckIfEnrolment, "get_enrolment_id",
                        Args_get_enrolment_id(contact_id, component_id),
                        [unconditional |-> unconditional])
    /\ Quiet

\* get_enrolment_id has ended: its exception leaves the method, no
\* enrolment is logged and the method returns, and an enrolment has its
\* status set.
Check_got_enrolment_id ==
    /\ Back(CheckIfEnrolment, "get_enrolment_id")
    /\ task' = IF last.exc # "none"
               THEN Done(task, last.exc)
               ELSE IF Not(last.val)
               THEN Done([task EXCEPT !.errors = @ + 1], "none")
               ELSE Want(task, "set_enrolment_status",
                         Args_set_enrolment_status(
                             last.val, "PASSED", task.fields.unconditional))
    /\ Quiet

\* set_enrolment_status has ended, and the method with it.
Check_set_enrolment_status_ended ==
    /\ Back(CheckIfEnrolment, "set_enrolment_status")
    /\ task' = Done(task, last.exc)
    /\ Quiet

\* --- signals.listen_for_passing_grade

ListenForPassingGrade == "listen_for_passing_grade"

\* The signal arrives for a user and a course with these mappings (their
\* component IDs).
Call_listen_for_passing_grade(users, course_mappings_) ==
    /\ call = Idle
    /\ task.pc = "done"
    /\ \E user \in users, course_mappings \in course_mappings_ :
           task' = Task(ListenForPassingGrade, "get_contact_id",
                        Args_get_contact_id(user),
                        [user |-> user, course_mappings |-> course_mappings,
                         i |-> 1, contact_id |-> None])
    /\ Quiet

\* for cm in course_mappings: the handler, in t, comes to mapping i.
Signal_for(t, i) ==
    IF i > Len(t.fields.course_mappings)
    THEN Done([t EXCEPT !.fields.i = i], "none")
    ELSE Want([t EXCEPT !.fields.i = i], "get_enrolment_id",
              Args_get_enrolment_id(t.fields.contact_id,
                                    t.fields.course_mappings[i]))

Signal_got_contact_id ==
    /\ Back(ListenForPassingGrade, "get_contact_id")
    /\ task' = IF last.exc # "none"
               THEN Done(task, last.exc)
               ELSE IF Not(last.val)
               THEN Done([task EXCEPT !.errors = @ + 1], "none")
               ELSE Signal_for([task EXCEPT !.fields.contact_id = last.val], 1)
    /\ Quiet

Signal_got_enrolment_id ==
    /\ Back(ListenForPassingGrade, "get_enrolment_id")
    /\ task' = IF last.exc # "none"
               THEN Done(task, last.exc)
               ELSE IF Not(last.val)
               THEN Signal_for([task EXCEPT !.errors = @ + 1],
                               task.fields.i + 1)
               ELSE Want(task, "set_enrolment_status",
                         Args_set_enrolment_status(last.val, "PASSED", FALSE))
    /\ Quiet

\* set_enrolment_status has ended: a LearndotAPIException is logged, and
\* another exception leaves the handler.
Signal_set_enrolment_status_ended ==
    /\ Back(ListenForPassingGrade, "set_enrolment_status")
    /\ task' = IF last.exc = "none"
               THEN Signal_for(task, task.fields.i + 1)
               ELSE IF last.exc = "LearndotAPIException"
               THEN Signal_for([task EXCEPT !.errors = @ + 1],
                               task.fields.i + 1)
               ELSE Done(task, last.exc)
    /\ Quiet

\* --- update_learndot_enrolments.Command.handle

Handle == "handle"

\* for enrollment in enrollments: the command, in t, comes to enrollment i.
Command_for(t, i) ==
    IF i > Len(t.fields.enrollments)
    THEN Done([t EXCEPT !.fields.i = i], "none")
    ELSE Want([t EXCEPT !.fields.i = i], "get_contact_id",
              Args_get_contact_id(t.fields.enrollments[i].user))

\* The command runs over these enrollments, each with its course mapping's
\* component ID, the grade that CourseGradeFactory reads ("none", "failed"
\* or "passed") and what should_persist_grades says of the course.
Call_handle(enrollments_, flags) ==
    /\ call = Idle
    /\ task.pc = "done"
    /\ \E enrollments \in enrollments_, unconditional \in flags :
           task' = Command_for(
                       Task(Handle, "get_contact_id", Args_get_contact_id(0),
                            [enrollments |-> enrollments, i |-> 1,
                             unconditional |-> unconditional]), 1)
    /\ Quiet

Command_got_contact_id ==
    /\ Back(Handle, "get_contact_id")
    /\ LET enrollment == task.fields.enrollments[task.fields.i]
       IN  task' = IF last.exc # "none"
                   THEN Done(task, last.exc)
                   ELSE IF Not(last.val)
                   THEN Command_for(task, task.fields.i + 1)
                   ELSE IF enrollment.course_grade = "passed"
                           /\ enrollment.should_persist_grades
                   THEN Want(task, "get_enrolment_id",
                             Args_get_enrolment_id(last.val,
                                                   enrollment.component_id))
                   ELSE Command_for(task, task.fields.i + 1)
    /\ Quiet

\* Inside check_if_enrolment_and_set_status_to_passed.
Command_got_enrolment_id ==
    /\ Back(Handle, "get_enrolment_id")
    /\ task' = IF last.exc # "none"
               THEN Done(task, last.exc)
               ELSE IF Not(last.val)
               THEN Command_for([task EXCEPT !.errors = @ + 1],
                                task.fields.i + 1)
               ELSE Want(task, "set_enrolment_status",
                         Args_set_enrolment_status(
                             last.val, "PASSED", task.fields.unconditional))
    /\ Quiet

Command_set_enrolment_status_ended ==
    /\ Back(Handle, "set_enrolment_status")
    /\ task' = IF last.exc # "none"
               THEN Done(task, last.exc)
               ELSE Command_for(task, task.fields.i + 1)
    /\ Quiet

\* --- the handlers over a service with and without an enrolment

MaxMappings == 2

\* A service whose contact has a cancelled enrolment only.
RemoteCancelled ==
    [contact_search |-> RemoteOfTests.contact_search,
     enrolment_search |-> JsonOf(<<Enrolment(1, "CANCELLED", NoDates)>>)]

\* The component IDs of the mappings of a course.
CourseMappings == UNION {[1..n -> ComponentIds] : n \in 0..MaxMappings}

\* The enrollments the command goes through.
Enrollments ==
    UNION { [1..n ->
               { [user |-> User_test, component_id |-> 2,
                  course_grade |-> g, should_persist_grades |-> TRUE] :
                    g \in {"passed", "failed"} }] : n \in 1..MaxMappings }

HandlerStatuses == {0, 200, 404, 429}

InitHandlers ==
    InitClient({SettingsConfigured}, {RemoteOfTests, RemoteCancelled})

NextHandlers ==
    \/ Call_check_if_enrolment_and_set_status_to_passed(
           {1}, ComponentIds, BOOLEAN)
    \/ Check_got_enrolment_id
    \/ Check_set_enrolment_status_ended
    \/ Call_listen_for_passing_grade({User_test}, CourseMappings)
    \/ Signal_got_contact_id
    \/ Signal_got_enrolment_id
    \/ Signal_set_enrolment_status_ended
    \/ Call_handle(Enrollments, BOOLEAN)
    \/ Command_got_contact_id
    \/ Command_got_enrolment_id
    \/ Command_set_enrolment_status_ended
    \/ Task_get_contact_id(HandlerStatuses)
    \/ Task_get_enrolment_id(HandlerStatuses)
    \/ Task_set_enrolment_status(HandlerStatuses, {"ok"})
    \/ Retry_get_contact_id(HandlerStatuses)
    \/ Retry_get_enrolment_id(HandlerStatuses)
    \/ Retry_set_enrolment_status(HandlerStatuses, {"ok"})
    \/ Call_set_enrolment_status({1}, {"PASSED"}, {FALSE}, HandlerStatuses,
                                 {"ok"})

SpecHandlers == InitHandlers /\ [][NextHandlers]_vars

\* --- the two entry points over learners with and without a contact

\* A learner whose email the service has no contact for.
User_unknown == [id |-> 2, email |-> Email_xtest, username |-> <<120>>]

Learners == {User_test, User_unknown}

\* The enrollments of the known and the unknown learner that the command
\* goes through.
LearnerEnrollments ==
    UNION { [1..n ->
               { [user |-> u, component_id |-> 2, course_grade |-> "passed",
                  should_persist_grades |-> TRUE] : u \in Learners }]
            : n \in 1..MaxMappings }

EntryStatuses == {200, 404, 429}

InitEntryPoints ==
    InitClient({SettingsConfigured}, {RemoteOfTests, RemoteCancelled})

NextEntryPoints ==
    \/ Call_listen_for_passing_grade(Learners, CourseMappings)
    \/ Signal_got_contact_id
    \/ Signal_got_enrolment_id
    \/ Signal_set_enrolment_status_ended
    \/ Call_handle(LearnerEnrollments, BOOLEAN)
    \/ Command_got_contact_id
    \/ Command_got_enrolment_id
    \/ Command_set_enrolment_status_ended
    \/ Task_get_contact_id(EntryStatuses)
    \/ Task_get_enrolment_id(EntryStatuses)
    \/ Task_set_enrolment_status(EntryStatuses, {"ok"})
    \/ Retry_get_contact_id(EntryStatuses)
    \/ Retry_get_enrolment_id(EntryStatuses)
    \/ Retry_set_enrolment_status(EntryStatuses, {"ok"})

SpecEntryPoints == InitEntryPoints /\ [][NextEntryPoints]_vars

\* --- the command called with a date range

\* The command called as the tests call it, with the options start and end:
\* handle takes them in **options and does not read them.  Dates are days
\* before now.
Call_handle_with_range(enrollments_, flags, ranges) ==
    /\ call = Idle
    /\ task.pc = "done"
    /\ \E enrollments \in enrollments_, unconditional \in flags,
          range \in ranges :
           task' = Command_for(
                       Task(Handle, "get_contact_id", Args_get_contact_id(0),
                            [enrollments |-> enrollments, i |-> 1,
                             unconditional |-> unconditional,
                             start |-> range.start, end |-> range.end]), 1)
    /\ Quiet

\* 'two years ago' to 'now', and 'two years ago' to 'one year ago'.
DateRanges == {[start |-> 730, end |-> 0], [start |-> 730, end |-> 365]}

\* Enrollments of the passing learner, created 30 days ago or 400.
DatedEnrollments ==
    UNION { [1..n ->
               { [user |-> User_test, component_id |-> 2,
                  course_grade |-> "passed", should_persist_grades |-> TRUE,
                  created |-> d] : d \in {30, 400} }] : n \in 1..MaxMappings }

CommandStatuses == {200, 404, 429}

InitCommand == InitClient({SettingsConfigured}, {RemoteOfTests})

NextCommand ==
    \/ Call_handle_with_range(DatedEnrollments, {FALSE}, DateRanges)
    \/ Command_got_contact_id
    \/ Command_got_enrolment_id
    \/ Command_set_enrolment_status_ended
    \/ Task_get_contact_id(CommandStatuses)
    \/ Task_get_enrolment_id(CommandStatuses)
    \/ Task_set_enrolment_status(CommandStatuses, {"ok"})
    \/ Retry_get_contact_id(CommandStatuses)
    \/ Retry_get_enrolment_id(CommandStatuses)
    \/ Retry_set_enrolment_status(CommandStatuses, {"ok"})

SpecCommand == InitCommand /\ [][NextCommand]_vars

\* ------------------------------- set_enrolment_status in concurrent workers

\* Workers (web workers handling the signal, runs of the command) share the
\* status log and the service.  What set_enrolment_status does in one of
\* them is four steps, each atomic: it checks its arguments and reads the
\* log ("read"), sends the request ("post"), gets or creates the row of the
\* log ("write"), and saves the row with the status ("save").
\* @retry runs the body again from "read".  Each worker makes one call.
MaxCallers == 2

NotCalling ==
    [pc |-> "idle", args |-> Args_set_enrolment_status(None, "", FALSE),
     attempt_number |-> 0, posts |-> 0, http |-> -1, read_log |-> {},
     exc |-> "none"]

\* The worker's call, in c, ends attempt c.attempt_number with r.
CallerAttempted(c, r) ==
    IF Retrying(r, c.attempt_number) = "retry"
    THEN [c EXCEPT !.pc = "read", !.attempt_number = @ + 1]
    ELSE [c EXCEPT !.pc = "done", !.exc = r.exc]

\* What the response to the request asks of @retry and the caller.
StatusResponse(st, args, response) ==
    LET url == PostArguments(
                   get_enrolment_management_url(st.settings, args.enrolment_id),
                   st.settings)
        http == raise_for_status(response, url.val)
    IN  IF response.status = 0
        THEN Raised("ConnectionError", Text_ConnectionError)
        ELSE IF http.exc # "none"
        THEN Raised("LearndotAPIException",
                    Text_StatusError \o StrOfInt(args.enrolment_id)
                        \o Text_Sep \o StatusText(args.status)
                        \o Text_Sep \o http.msg)
        ELSE Returned(None)

Caller_call(p, enrolment_ids, statuses_, flags) ==
    /\ callers[p].pc = "idle"
    /\ \E enrolment_id \in enrolment_ids, status \in statuses_,
          unconditional \in flags :
           callers' = [callers EXCEPT ![p] =
               [NotCalling EXCEPT
                    !.pc = "read", !.attempt_number = 1,
                    !.exc = "running",
                    !.args = Args_set_enrolment_status(enrolment_id, status,
                                                       unconditional)]]
    /\ UNCHANGED <<settings, remote, cache, status_log, call, last, sort_input,
                   sort_output, remote_status, task, compare_input,
                   compare_output, mapping_table>>

\* The body up to the request: the arguments are checked and the log read.
Caller_read(p) ==
    LET c == callers[p]
        enrolment_status == objects_get(status_log, c.args.enrolment_id)
        url == PostArguments(
                   get_enrolment_management_url(settings, c.args.enrolment_id),
                   settings)
    IN  /\ c.pc = "read"
        /\ callers' = [callers EXCEPT ![p] =
               IF Not(c.args.enrolment_id)
               THEN CallerAttempted(c, Raised("LearndotAPIException",
                                               Text_NoEnrolmentId))
               ELSE IF ~is_valid(c.args.status)
               THEN CallerAttempted(c, Raised("LearndotAPIException",
                                               Text_InvalidStatus
                                                   \o StatusText(c.args.status)))
               ELSE IF c.args.unconditional
               THEN IF url.exc # "none" THEN CallerAttempted(c, url)
                    ELSE [c EXCEPT !.pc = "post"]
               ELSE IF enrolment_status.exc = "MultipleObjectsReturned"
               THEN CallerAttempted([c EXCEPT !.read_log = status_log],
                                    enrolment_status)
               ELSE IF enrolment_status.exc = "none"
                       /\ enrolment_status.val.status = c.args.status
               THEN CallerAttempted([c EXCEPT !.read_log = status_log],
                                    Returned(None))
               ELSE IF url.exc # "none"
               THEN CallerAttempted([c EXCEPT !.read_log = status_log], url)
               ELSE [c EXCEPT !.pc = "post", !.read_log = status_log]]
        /\ UNCHANGED <<settings, remote, cache, status_log, call, last,
                       sort_input, sort_output, remote_status, task,
                       compare_input, compare_output, mapping_table>>

\* requests.post and raise_for_status: the service holds the status of a
\* request it accepted.
Caller_post(p, statuses) ==
    LET c == callers[p]
    IN  /\ c.pc = "post"
        /\ \E http \in statuses :
               LET r == StatusResponse(State, c.args,
                                       Response(http, JsonMalformed))
                   sent == [c EXCEPT !.posts = @ + 1, !.http = http]
               IN  /\ callers' = [callers EXCEPT ![p] =
                          IF r.exc = "none" THEN [sent EXCEPT !.pc = "write"]
                          ELSE CallerAttempted(sent, r)]
                   /\ remote_status' =
                          IF r.exc = "none"
                          THEN (c.args.enrolment_id :> c.args.status)
                                   @@ remote_status
                          ELSE remote_status
        /\ UNCHANGED <<settings, remote, cache, status_log, call, last,
                       sort_input, sort_output, task, compare_input,
                       compare_output, mapping_table>>

\* The try block that records the update, its first statement: get_or_create
\* inserts the row of the enrolment, with the default status, where there is
\* none, and the database commits it; or the statement raises.
Caller_write(p, dbs) ==
    LET c == callers[p]
    IN  /\ c.pc = "write"
        /\ \E db \in dbs :
               IF db = "ok"
               THEN /\ status_log' = objects_get_or_create(
                                         status_log, c.args.enrolment_id)
                    /\ callers' = [callers EXCEPT ![p].pc = "save"]
               ELSE /\ status_log' = status_log
                    /\ callers' = [callers EXCEPT ![p] =
                           CallerAttempted(c,
                               RecordStatus(State, c.args.enrolment_id,
                                            c.args.status, db))]
        /\ UNCHANGED <<settings, remote, cache, call, last, sort_input,
                       sort_output, remote_status, task, compare_input,
                       compare_output, mapping_table>>

\* enrolment_status_log.status = status; enrolment_status_log.save(): a
\* second statement, after which the method returns.
Caller_save(p) ==
    LET c == callers[p]
    IN  /\ c.pc = "save"
        /\ status_log' = objects_save(status_log, c.args.enrolment_id,
                                      c.args.status)
        /\ callers' = [callers EXCEPT ![p] = CallerAttempted(c, Returned(None))]
        /\ UNCHANGED <<settings, remote, cache, call, last, sort_input,
                       sort_output, remote_status, task, compare_input,
                       compare_output, mapping_table>>

\* What a worker's request meets: the service accepts it, or refuses it
\* with the status that is retried.
CallerStatuses == {200, 429}

InitConcurrent ==
    /\ settings = SettingsConfigured
    /\ remote = RemoteOfTests
    /\ cache = [x \in {} |-> None]
    /\ status_log = {}
    /\ call = Idle
    /\ last = NoCall
    /\ sort_input = <<>>
    /\ sort_output = NotCalled
    /\ remote_status = [x \in {} |-> ""]
    /\ task = NoTask
    /\ compare_input = <<>>
    /\ compare_output = NotCalled
    /\ callers = [p \in 1..MaxCallers |-> NotCalling]
    /\ mapping_table = {}

NextConcurrent ==
    \E p \in 1..MaxCallers :
        \/ Caller_call(p, {1}, {"PASSED", "IN_PROGRESS"}, BOOLEAN)
        \/ Caller_read(p)
        \/ Caller_post(p, CallerStatuses)
        \/ Caller_write(p, {"ok"})
        \/ Caller_save(p)

SpecConcurrent == InitConcurrent /\ [][NextConcurrent]_vars

\* ------------------------------------------------- the CourseMapping table

\* A table without its unique constraint.
unique_together_Unchecked(table, learndot_component_id, edx_course_key) == TRUE

\* Meta.unique_together = ("learndot_component_id", "edx_course_key"): the
\* table can take a row with this pair.
unique_together(table, learndot_component_id, edx_course_key) ==
    \A r \in table :
        ~(/\ r.learndot_component_id = learndot_component_id
          /\ r.edx_course_key = edx_course_key)

\* CourseMapping.objects.create(learndot_component_id=..., edx_course_key=...)
\* gives the row its id, an AutoField, and the table after it.
CourseMapping_objects_create(table, learndot_component_id, edx_course_key) ==
    IF unique_together(table, learndot_component_id, edx_course_key)
    THEN [exc |-> "none",
          table |-> table \cup
              {[id |-> Cardinality(table) + 1,
                learndot_component_id |-> learndot_component_id,
                edx_course_key |-> edx_course_key]}]
    ELSE [exc |-> "IntegrityError", table |-> table]

\* "course-v1:Test+TestCourse+201801" and "...201802", by their runs.
CourseKeys == {"201801", "201802"}
MappedComponentIds == {1, 2}

Create_CourseMapping(component_ids, course_keys) ==
    /\ \E learndot_component_id \in component_ids,
          edx_course_key \in course_keys :
           LET r == CourseMapping_objects_create(
                        mapping_table, learndot_component_id, edx_course_key)
           IN  /\ mapping_table' = r.table
               /\ last' = [op |-> "CourseMapping.objects.create",
                           args |-> [learndot_component_id |->
                                         learndot_component_id,
                                     edx_course_key |-> edx_course_key],
                           before |-> mapping_table,
                           exc |-> r.exc]
    /\ UNCHANGED <<settings, remote, cache, status_log, call, sort_input,
                   sort_output, remote_status, task, compare_input,
                   compare_output, callers>>

InitMapping == InitClient({SettingsConfigured}, {RemoteOfTests})

NextMapping == Create_CourseMapping(MappedComponentIds, CourseKeys)

SpecMapping == InitMapping /\ [][NextMapping]_vars

\* ------------------------------------------------------ the sorting model

\* The client's variables, where nothing calls the client.
ClientUnused ==
    /\ settings = SettingsConfigured
    /\ remote = RemoteOfTests
    /\ cache = [x \in {} |-> None]
    /\ status_log = {}
    /\ call = Idle
    /\ last = NoCall
    /\ remote_status = [x \in {} |-> ""]
    /\ task = NoTask
    /\ callers = <<>>
    /\ mapping_table = {}

InitSort ==
    /\ sort_input \in UNION {EnrolmentLists(n) : n \in 0..MaxEnrolments}
    /\ sort_output = NotCalled
    /\ compare_input = <<>>
    /\ compare_output = NotCalled
    /\ ClientUnused

Sort ==
    /\ sort_output = NotCalled
    /\ sort_output' = sort_enrolments_by_expiry(sort_input)
    /\ UNCHANGED <<sort_input, settings, remote, cache, status_log, call, last,
                   remote_status, task, compare_input, compare_output, callers,
                   mapping_table>>

NextSort == Sort

SpecSort == InitSort /\ [][NextSort]_vars

\* --------------------------------------------------- the comparator model

MaxKeyLen == 3

\* The key tuples compared: dates and empty strings, as the tests' tuples.
KeyTuples ==
    UNION { [1..n -> {<<>>, Date_2018_01_01, Date_2018_03_01}] :
              n \in 0..MaxKeyLen }

InitCompare ==
    /\ compare_input \in KeyTuples \X KeyTuples
    /\ compare_output = NotCalled
    /\ sort_input = <<>>
    /\ sort_output = NotCalled
    /\ ClientUnused

Compare ==
    /\ compare_output = NotCalled
    /\ compare_output' =
           Returned(compare_enrolment_sort_keys(compare_input[1],
                                                compare_input[2]))
    /\ UNCHANGED <<compare_input, sort_input, sort_output, settings, remote,
                   cache, status_log, call, last, remote_status, task, callers,
                   mapping_table>>

NextCompare == Compare

SpecCompare == InitCompare /\ [][NextCompare]_vars

\* ============================================================ properties

\* The call that ended last is a call of op.
Ended(op) == last.op = op
SetStatus == "set_enrolment_status"

\* ---------------------------------------------------------------- C1

\* The call that ended last is a set_enrolment_status, not unconditional,
\* whose first attempt sent the update and had it accepted.
Updated ==
    /\ Ended(SetStatus)
    /\ ~last.args.unconditional
    /\ last.exc = "none"
    /\ last.attempts = 1
    /\ last.http = 200

\* This step is the next call, and it has the arguments of the last one.
SameAgain ==
    /\ call = Idle
    /\ Updated
    /\ IF call' = Idle
       THEN last'.op = SetStatus /\ last'.args = last.args
       ELSE call'.op = SetStatus /\ call'.args = last.args

\* The second call returns at once, without a request, the log unchanged.
NoOp ==
    /\ call' = Idle
    /\ last'.exc = "none"
    /\ last'.posts = 0
    /\ status_log' = status_log

Succeeded == Ended(SetStatus) /\ last.exc = "none" /\ last.http = 200

\* The status log holds the status sent, for the enrolment.
Logged ==
    \E r \in status_log :
        /\ r.learndot_enrolment_id = last.args.enrolment_id
        /\ r.status = last.args.status
        /\ \A q \in status_log :
               q.learndot_enrolment_id = r.learndot_enrolment_id => q = r

StatusEnum ==
    {"APPROVED", "CANCELLED", "CONFIRMED", "FAILED", "IN_PROGRESS", "MISSED",
     "PASSED", "TENTATIVE"}

\* This step is a call of set_enrolment_status with a status outside the
\* enum.
InvalidCall ==
    /\ call = Idle
    /\ IF call' = Idle
       THEN last'.op = SetStatus /\ last'.args.status \notin StatusEnum
       ELSE call'.op = SetStatus /\ call'.args.status \notin StatusEnum

\* C3: set_enrolment_status with a status that is no member of the enum
\* raises LearndotAPIException, sends no request and leaves the status log
\* unchanged, whatever the enrolment id, the flag and the log.
C3_InvalidStatusRejected ==
    [][InvalidCall =>
          /\ call' = Idle
          /\ last'.exc = "LearndotAPIException"
          /\ last'.posts = 0
          /\ status_log' = status_log]_vars

\* An invalid status was refused for an enrolment the log knows, with
\* unconditional set.
C3_Witness ==
    /\ Ended(SetStatus)
    /\ last.args.status = "BUNGLED"
    /\ last.args.unconditional
    /\ last.exc = "LearndotAPIException"
    /\ \E r \in status_log : r.learndot_enrolment_id = last.args.enrolment_id

\* ---------------------------------------------------------------- C4

Transient == {429, 502, 504}

\* Every attempt of the call that ended last met HTTP 429, 502 or 504.
AllTransient ==
    last.op # "none" /\ last.transient_before /\ last.http \in Transient

\* C4: a call whose attempts all met HTTP 429, 502 or 504 sent
\* LEARNDOT_RETRY_MAX_ATTEMPTS requests and raised the LearndotAPIException
\* of its last attempt; no call makes more attempts than that.
C4_RetriesThenRaises ==
    /\ call # Idle => call.attempt_number <= LEARNDOT_RETRY_MAX_ATTEMPTS
    /\ AllTransient =>
           /\ last.attempts = LEARNDOT_RETRY_MAX_ATTEMPTS
           /\ last.posts = LEARNDOT_RETRY_MAX_ATTEMPTS
           /\ last.exc = "LearndotAPIException"
           /\ StrContains(last.msg, StrOfInt(last.http) \o Text_ErrorForUrl)

\* A status update gave up on a 504 after other transient failures.
C4_Witness ==
    /\ AllTransient
    /\ last.op = SetStatus
    /\ last.http = 504
    /\ last.exc = "LearndotAPIException"

\* ---------------------------------------------------------------- C5

\* C5, as stated: no failure but an HTTP 429, 502 or 504 is retried: a call
\* is at a later attempt only after attempts that all met one of these.
C5_OnlyTransientRetried == call # Idle => call.transient

\* ---------------------------------------------------------------- C6

\* The last attempt of the call that ended last asked the service, which
\* answered with its results.
Answered(op, search) ==
    /\ Ended(op)
    /\ last.http = 200
    /\ "results" \in DOMAIN remote[search]

ContactResults == remote.contact_search.results

\* The positions of the contacts with exactly the user's email.
EmailMatches ==
    {i \in DOMAIN ContactResults :
        ContactResults[i].email = last.args.user.email}

EnrolmentResults == remote.enrolment_search.results

\* The positions of the enrolments that are not cancelled.
Live == {i \in DOMAIN EnrolmentResults : EnrolmentResults[i].status # "CANCELLED"}

\* C7: get_enrolment_id, the enrolment not cached, returns None exactly if
\* the search gave no enrolment that is not cancelled, the id of the one
\* that is not if there is one, and otherwise the id of one that is not:
\* never the id of a cancelled one.
C7_NeverCancelled ==
    Answered("get_enrolment_id", "enrolment_search") =>
        /\ Cardinality(Live) <= 1 => last.exc = "none"
        /\ last.exc = "none" =>
               /\ last.val = None <=> Live = {}
               /\ \A i \in Live :
                      Cardinality(Live) = 1 => last.val = EnrolmentResults[i].id
               /\ last.val # None =>
                      \E i \in Live : last.val = EnrolmentResults[i].id

\* An enrolment was chosen among two, a cancelled one set aside.
C7_Witness ==
    /\ Answered("get_enrolment_id", "enrolment_search")
    /\ Len(EnrolmentResults) = 3
    /\ Cardinality(Live) = 2
    /\ last.val # None

\* ---------------------------------------------------------------- C8

\* The enrolment has no such date.
HasNo(e, k) == DictGet(e, k) \in {NoneStr, <<>>}

\* The comparator on the enrolments at the positions i and j.
Compared(i, j) ==
    extract_and_compare_enrolment_sort_keys(EnrolmentResults[i],
                                            EnrolmentResults[j]).val

\* Every date of an enrolment that is not cancelled parses.
AllParse ==
    \A i \in Live : extract_enrolment_sort_key(EnrolmentResults[i]).exc = "none"

\* C8: with several enrolments not cancelled, their dates all parsing,
\* get_enrolment_id returns the id of the last element of the list sorted
\* by the comparator: none compares greater than the one chosen, one
\* without expiryDate is chosen over all that have one, and one without
\* any date over all others.
C8_LatestChosen ==
    Answered("get_enrolment_id", "enrolment_search")
        /\ Cardinality(Live) > 1 /\ AllParse =>
        /\ last.exc = "none"
        /\ \E i \in Live :
               /\ last.val = EnrolmentResults[i].id
               /\ \A j \in Live : Compared(j, i) <= 0
               /\ \A j \in Live : j > i => Compared(j, i) < 0
               /\ (\E j \in Live : HasNo(EnrolmentResults[j], "expiryDate"))
                      => HasNo(EnrolmentResults[i], "expiryDate")
               /\ (\E j \in Live :
                       \A k \in {"expiryDate", "modified", "created"} :
                           HasNo(EnrolmentResults[j], k))
                      => \A k \in {"expiryDate", "modified", "created"} :
                             HasNo(EnrolmentResults[i], k)

\* An enrolment without dates was chosen over one with a modified date only
\* and one that expires.
C8_Witness ==
    /\ Answered("get_enrolment_id", "enrolment_search")
    /\ Cardinality(Live) = 3
    /\ AllParse
    /\ \E j \in Live : ~HasNo(EnrolmentResults[j], "expiryDate")
    /\ \E j \in Live : ~HasNo(EnrolmentResults[j], "modified")
    /\ \E j \in Live : \A k \in {"expiryDate", "modified", "created"} :
                           HasNo(EnrolmentResults[j], k)
    /\ last.val # None

\* ---------------------------------------------------------------- C9

\* An enrolment that is not cancelled has an expiryDate that does not parse
\* (ValueError) or is too large (OverflowError).
Unsortable ==
    \E i \in Live :
        DictGet(EnrolmentResults[i], "expiryDate") \in {Date_HA_NO, Date_Ridiculous}

\* C9: with several enrolments not cancelled whose sort fails on a date,
\* get_enrolment_id raises LearndotAPIException, returns no id and caches
\* none.
C9_UnsortableRaises ==
    Answered("get_enrolment_id", "enrolment_search")
        /\ Cardinality(Live) > 1 /\ Unsortable =>
        /\ last.exc = "LearndotAPIException"
        /\ last.val = None
        /\ enrolment_cache_key(last.args.contact_id, last.args.component_id)
               \notin DOMAIN cache

\* The lookup failed on a date too large, among dates that parse.
C9_Witness ==
    /\ Answered("get_enrolment_id", "enrolment_search")
    /\ Cardinality(Live) > 1
    /\ \E i \in Live :
           DictGet(EnrolmentResults[i], "expiryDate") = Date_Ridiculous
    /\ \A i \in Live : DictGet(EnrolmentResults[i], "expiryDate") # Date_HA_NO
    /\ last.exc = "LearndotAPIException"

\* --------------------------------------------------------------- C10

\* The enrolment has an expiryDate that parses.
ValidExpiry(e) ==
    /\ ~HasNo(e, "expiryDate")
    /\ dateutil_parse(e.expiryDate).exc = "none"

\* The expiryDate is written as YYYY-MM-DD, zero padded.
ZeroPadded(e) ==
    LET parts == StrSplit(e.expiryDate, 45)
    IN  Len(parts) = 3 /\ Len(parts[1]) = 4 /\ Len(parts[2]) = 2
        /\ Len(parts[3]) = 2

\* The date a comes before the date b, or is b: dates are <<y, m, d>>.
DateLeq(a, b) ==
    \/ a[1] < b[1]
    \/ a[1] = b[1] /\ a[2] < b[2]
    \/ a[1] = b[1] /\ a[2] = b[2] /\ a[3] <= b[3]

\* The sort gave the enrolments of its input, in ascending order of the
\* dates their expiryDate stand for.
AscendingByExpiry ==
    /\ sort_output.exc = "none"
    /\ Len(sort_output.val) = Len(sort_input)
    /\ \A i \in DOMAIN sort_input :
           \E j \in DOMAIN sort_output.val : sort_output.val[j] = sort_input[i]
    /\ \A i, j \in DOMAIN sort_output.val :
           i < j => DateLeq(dateutil_parse(sort_output.val[i].expiryDate).val,
                            dateutil_parse(sort_output.val[j].expiryDate).val)

Sorted == sort_output # NotCalled

\* C10, as stated: a list of enrolments that all have a valid expiryDate is
\* returned in ascending order of expiryDate, the latest last.
C10_Original ==
    Sorted /\ (\A i \in DOMAIN sort_input : ValidExpiry(sort_input[i]))
        => AscendingByExpiry

\* C10, amended: the same, where the expiryDates are all written in the one
\* zero padded format.
C10_AscendingByExpiry ==
    Sorted /\ (\A i \in DOMAIN sort_input :
                   ValidExpiry(sort_input[i]) /\ ZeroPadded(sort_input[i]))
        => AscendingByExpiry

\* Three enrolments with zero padded expiryDates were put in another order.
C10_Witness ==
    /\ Sorted
    /\ Len(sort_input) = 3
    /\ \A i \in DOMAIN sort_input :
           ValidExpiry(sort_input[i]) /\ ZeroPadded(sort_input[i])
    /\ AscendingByExpiry
    /\ sort_output.val # sort_input

\* --------------------------------------------------------------- C11

\* The sort returned a list with the records of its input.
SortedAll ==
    /\ Sorted
    /\ sort_output.exc = "none"
    /\ Len(sort_output.val) = Len(sort_input)
    /\ \A i \in DOMAIN sort_input :
           \E j \in DOMAIN sort_output.val : sort_output.val[j] = sort_input[i]

\* C11: in the list sort_enrolments_by_expiry returns, every record whose
\* expiryDate is missing, empty or None comes after every record that has
\* one, whatever its modified and created.
C11_NoExpiryLast ==
    Sorted /\ sort_output.exc = "none" =>
        /\ SortedAll
        /\ \A i, j \in DOMAIN sort_output.val :
               HasNo(sort_output.val[i], "expiryDate")
                   /\ ~HasNo(sort_output.val[j], "expiryDate") => j < i

\* A record without expiryDate, with an early modified date, was moved
\* behind a record that expires later.
C11_Witness ==
    /\ SortedAll
    /\ Len(sort_input) = 3
    /\ HasNo(sort_input[1], "expiryDate")
    /\ ~HasNo(sort_input[1], "modified")
    /\ ~HasNo(sort_input[3], "expiryDate")
    /\ HasNo(sort_output.val[3], "expiryDate")

\* --------------------------------------------------------------- C12

\* The record has no expiryDate, and a modified or a created date.
Keyless(e) ==
    HasNo(e, "expiryDate") /\ (~HasNo(e, "modified") \/ ~HasNo(e, "created"))

\* e.get("modified") or e.get("created")
FallbackDate(e) ==
    IF ~HasNo(e, "modified") THEN e.modified ELSE e.created

ZeroPaddedFallback(e) ==
    LET parts == StrSplit(FallbackDate(e), 45)
    IN  Len(parts) = 3 /\ Len(parts[1]) = 4 /\ Len(parts[2]) = 2
        /\ Len(parts[3]) = 2

SortKeyDates(e) ==
    {StrOr(DictGet(e, "expiryDate"), <<>>),
     StrOr(DictGet(e, "modified"), StrOr(DictGet(e, "created"), <<>>))}

HasUnparseable == \E i \in DOMAIN sort_input : Date_HA_NO \in SortKeyDates(sort_input[i])
HasOutOfRange ==
    \E i \in DOMAIN sort_input : Date_Ridiculous \in SortKeyDates(sort_input[i])

\* C13, as stated: sort_enrolments_by_expiry raises ValueError for every
\* list with a record whose sort key has an unparseable date, and
\* OverflowError for every list with one whose date has a year out of
\* range (one of the two for a list with both), whatever the length of the
\* list and the place of the record.
C13_BadDateRaises ==
    Sorted =>
        /\ HasUnparseable /\ ~HasOutOfRange => sort_output.exc = "ValueError"
        /\ HasOutOfRange /\ ~HasUnparseable => sort_output.exc = "OverflowError"
        /\ HasUnparseable /\ HasOutOfRange =>
               sort_output.exc \in {"ValueError", "OverflowError"}

\* --------------------------------------------------------------- C14

Compared2 == compare_output # NotCalled

\* The tuple t padded with empty strings to the length n.
Padded(t, n) == [i \in 1..n |-> IF i <= Len(t) THEN t[i] ELSE <<>>]

PaddedLen == IF Len(compare_input[1]) >= Len(compare_input[2])
             THEN Len(compare_input[1]) ELSE Len(compare_input[2])
Key1 == Padded(compare_input[1], PaddedLen)
Key2 == Padded(compare_input[2], PaddedLen)

\* The positions where the padded tuples differ.
Differing == {i \in 1..PaddedLen : Key1[i] # Key2[i]}

\* C14: compare_enrolment_sort_keys pads the shorter tuple with empty
\* strings and decides at the first position where the two differ: an empty
\* string is greater than a date, two dates compare as strings; it returns
\* 0 only if no position differs.
C14_PaddedComparison ==
    Compared2 =>
        /\ compare_output.exc = "none"
        /\ Differing = {} => compare_output.val = 0
        /\ Differing # {} =>
               LET i == CHOOSE i \in Differing : \A k \in Differing : i <= k
               IN  compare_output.val =
                       IF Key1[i] = <<>> THEN 1
                       ELSE IF Key2[i] = <<>> THEN -1
                       ELSE IF StrLess(Key1[i], Key2[i]) THEN -1 ELSE 1

\* A key that is the other without its last date compared greater.
C14_Witness ==
    /\ Compared2
    /\ Len(compare_input[1]) = 2
    /\ Len(compare_input[2]) = 3
    /\ SubSeq(compare_input[2], 1, 2) = compare_input[1]
    /\ compare_input[1][2] # <<>>
    /\ compare_input[2][3] # <<>>
    /\ compare_output.val = 1

\* --------------------------------------------------------------- C15

\* C15, as stated: the batch command never aborts on a failure while it
\* processes one learner; when it has ended, it has returned normally and
\* has gone through every enrollment.
C15_BatchNeverAborts ==
    task.name = Handle /\ task.pc = "done"
        => /\ task.exc = "none"
           /\ task.fields.i > Len(task.fields.enrollments)

\* --------------------------------------------------------------- C16

\* C16, as stated: once the contact is found, a LearndotAPIException raised
\* while the signal handler processes one mapping, by the enrolment lookup
\* or by the status update, does not leave the handler, which goes through
\* every mapping.
C16_MappingErrorCaught ==
    /\ task.name = ListenForPassingGrade
    /\ task.pc = "done"
    /\ ~Not(task.fields.contact_id)
    /\ task.exc \in {"none", "LearndotAPIException"}
    => /\ task.exc = "none"
       /\ task.fields.i > Len(task.fields.course_mappings)

\* --------------------------------------------------------------- C17

\* The last attempt of the call that ended last sent a request that failed:
\* requests raised ConnectionError, the response had an error status, or
\* its body was not the JSON expected.
RemoteCallFailed ==
    /\ last.op # "none"
    /\ \/ last.http \in HttpStatuses \ {200}
       \/ /\ last.http = 200
          /\ \/ last.op = "get_contact_id"
                    /\ "results" \notin DOMAIN remote.contact_search
             \/ last.op = "get_enrolment_id"
                    /\ "results" \notin DOMAIN remote.enrolment_search

\* C17, as stated: a failure of a request made by get_contact_id,
\* get_enrolment_id or set_enrolment_status leaves the call as a
\* LearndotAPIException, and as no other exception.
C17_RemoteFailureIsAPIException ==
    RemoteCallFailed => last.exc = "LearndotAPIException"

\* --------------------------------------------------------------- C18

\* C18: when get_enrolment_id returns no enrolment,
\* check_if_enrolment_and_set_status_to_passed returns normally at once: it
\* makes no call to set_enrolment_status, so no status update is sent, and
\* the status log and the statuses at the service stay as they are.
C18_NoEnrolmentNoUpdate ==
    [][ /\ task.name = CheckIfEnrolment
        /\ task.pc = "wait"
        /\ task.op = "get_enrolment_id"
        /\ call = Idle
        /\ last.exc = "none"
        /\ last.val = None
        => /\ task'.pc = "done"
           /\ task'.exc = "none"
           /\ call' = Idle
           /\ last' = last
           /\ status_log' = status_log
           /\ remote_status' = remote_status ]_vars

\* The method has returned after a lookup that found no enrolment, with a
\* row in the status log.
C18_Witness ==
    /\ task.name = CheckIfEnrolment
    /\ task.pc = "done"
    /\ task.exc = "none"
    /\ task.errors = 1
    /\ last.op = "get_enrolment_id"
    /\ last.exc = "none"
    /\ last.val = None
    /\ status_log # {}

\* --------------------------------------------------------------- C19

\* The request of set_enrolment_status was accepted and the write to the
\* status log then failed.
WriteFailed ==
    /\ Ended(SetStatus)
    /\ last.http = 200
    /\ last.db \in DbOutcomes \ {"ok"}

\* C19, as stated: when the remote update succeeded and the write to the
\* status log fails, whatever the failure, set_enrolment_status returns
\* normally, having sent the update once in that attempt.
C19_WriteFailureSwallowed == WriteFailed => last.exc = "none"

\* --------------------------------------------------------------- C20

\* The arguments of the call this step begins.
Begun == IF call' = Idle THEN last' ELSE call'

\* The call before had its log write fail after the remote update, and this
\* step is a call, not unconditional, for a status that the service does
\* not hold for the enrolment.
CallAfterFailedWrite ==
    /\ call = Idle
    /\ Ended(SetStatus)
    /\ last.exc = "none"
    /\ last.http = 200
    /\ last.db = "IntegrityError"
    /\ Begun.op = SetStatus
    /\ ~Begun.args.unconditional
    /\ Begun.args.status \in StatusEnum
    /\ Begun.args.enrolment_id \in DOMAIN remote_status
    /\ remote_status[Begun.args.enrolment_id] # Begun.args.status

\* C20, as stated: after a log write that failed behind a successful remote
\* update, a set_enrolment_status, not unconditional, for a status other
\* than the one the service holds sends its request: the log never makes
\* it skip the update.
C20_NoLostUpdate ==
    [][CallAfterFailedWrite => call' # Idle \/ last'.posts >= 1]_vars

\* --------------------------------------------------------------- C21

\* The log the worker read holds the status it asks for, for the enrolment.
ReadMatch(c) ==
    \E r \in c.read_log :
        /\ r.learndot_enrolment_id = c.args.enrolment_id
        /\ r.status = c.args.status

\* C21: the log read and the log write of set_enrolment_status are apart:
\* a worker whose call is not unconditional goes on to the request exactly
\* when the log it read did not hold the status, whatever the log holds by
\* then, and it sends at most one request per attempt, so one request where
\* nothing is retried.
C21_ReadThenWriteNotAtomic ==
    \A p \in DOMAIN callers :
        LET c == callers[p]
        IN  /\ c.posts <= c.attempt_number
            /\ c.attempt_number = 1 => c.posts <= 1
            /\ c.pc \in {"post", "write", "save"} /\ ~c.args.unconditional
                   => ~ReadMatch(c)
            /\ c.pc = "done" /\ c.exc = "none" /\ c.attempt_number = 1
               /\ ~c.args.unconditional /\ ~ReadMatch(c)
                   => c.posts = 1

\* Two workers, neither unconditional, have asked for the same status of
\* the same enrolment with no row in the log when they read it; both sent
\* the update in their first attempt, and the log holds one row.
C21_Witness ==
    /\ callers[1].args = callers[2].args
    /\ \A p \in {1, 2} :
           /\ callers[p].pc = "done"
           /\ callers[p].exc = "none"
           /\ ~callers[p].args.unconditional
           /\ callers[p].read_log = {}
           /\ callers[p].attempt_number = 1
           /\ callers[p].posts = 1
    /\ Cardinality(status_log) = 1

\* --------------------------------------------------------------- C22

\* The rows of a table with this pair.
WithPair(table, args) ==
    {r \in table :
        /\ r.learndot_component_id = args.learndot_component_id
        /\ r.edx_course_key = args.edx_course_key}

\* C22: the CourseMapping table never holds two rows with the same
\* (component ID, course key) pair.  Creating a mapping for a pair the
\* table holds raises IntegrityError and leaves the table as it was;
\* creating one for a new pair adds its row, whether or not the component
\* or the course is mapped already.
C22_PairUnique ==
    /\ \A r1, r2 \in mapping_table :
           /\ r1.learndot_component_id = r2.learndot_component_id
           /\ r1.edx_course_key = r2.edx_course_key
           => r1 = r2
    /\ last.op = "CourseMapping.objects.create"
       => IF WithPair(last.before, last.args) # {}
          THEN last.exc = "IntegrityError" /\ mapping_table = last.before
          ELSE /\ last.exc = "none"
               /\ Cardinality(mapping_table) = Cardinality(last.before) + 1
               /\ last.before \subseteq mapping_table
               /\ Cardinality(WithPair(mapping_table, last.args)) = 1

\* Each component is mapped to both courses and each course to both
\* components, as in test_many_to_many_mapping, and creating one of the
\* pairs again has failed.
C22_Witness ==
    /\ last.op = "CourseMapping.objects.create"
    /\ last.exc = "IntegrityError"
    /\ Cardinality(mapping_table) = 4
    /\ \A c \in MappedComponentIds, k \in CourseKeys :
           \E r \in mapping_table :
               r.learndot_component_id = c /\ r.edx_course_key = k

\* --------------------------------------------------------------- C23

\* The enrolment IDs with a row in the log.
LoggedIds(log) == {r.learndot_enrolment_id : r \in log}

\* C23: the status log holds at most one row per enrolment ID, and no step
\* takes the row of an enrolment away.  The write of a call that got its
\* update accepted leaves the row of the enrolment with the status sent: a
\* row that was there is overwritten, and no row is added to it.
C23_OneRowPerEnrolment ==
    [][ /\ \A r1, r2 \in status_log' :
               r1.learndot_enrolment_id = r2.learndot_enrolment_id => r1 = r2
        /\ LoggedIds(status_log) \subseteq LoggedIds(status_log')
        /\ \A p \in DOMAIN callers :
               /\ callers[p].pc = "write" /\ callers'[p].pc = "save"
                  /\ callers[p].args.enrolment_id \in LoggedIds(status_log)
                      => status_log' = status_log
               /\ callers[p].pc = "save" /\ callers'[p].pc = "done"
                      => /\ [learndot_enrolment_id |->
                                 callers[p].args.enrolment_id,
                             status |-> callers[p].args.status] \in status_log'
                         /\ callers[p].args.enrolment_id
                                 \in LoggedIds(status_log)
                         /\ Cardinality(status_log') = Cardinality(status_log)
      ]_vars

\* A worker read the log with the enrolment's row at another status, had
\* its update accepted, and the enrolment's one row now has the new status.
C23_Witness ==
    \E p \in DOMAIN callers :
        LET c == callers[p]
        IN  /\ c.pc = "done"
            /\ c.exc = "none"
            /\ c.posts >= 1
            /\ \E r \in c.read_log :
                   /\ r.learndot_enrolment_id = c.args.enrolment_id
                   /\ r.status \notin {c.args.status, ""}
            /\ status_log = {[learndot_enrolment_id |-> c.args.enrolment_id,
                              status |-> c.args.status]}

\* --------------------------------------------------------------- C24

\* The cache key of a lookup with these arguments.
CacheKey(op, args) ==
    IF op = "get_contact_id" THEN contact_cache_key(args.user)
    ELSE enrolment_cache_key(args.contact_id, args.component_id)

Lookups == {"get_contact_id", "get_enrolment_id"}

\* This step is the first attempt of a lookup.
LookupBegins ==
    /\ call = Idle
    /\ remote' = remote
    /\ DOMAIN cache \subseteq DOMAIN cache'
    /\ Begun.op \in Lookups

\* C24: a lookup that returns an ID after asking the service leaves the ID
\* in the cache under its key, and a lookup called while the cache holds
\* its key returns the cached ID at once, without a request, whatever the
\* service would answer and whatever it holds by then.
C24_CachedIdReturned ==
    [][ /\ call' = Idle /\ last' # last /\ last'.op \in Lookups
           /\ last'.exc = "none" /\ last'.val # None /\ last'.posts >= 1
           => /\ CacheKey(last'.op, last'.args) \in DOMAIN cache'
              /\ cache'[CacheKey(last'.op, last'.args)] = last'.val
        /\ LookupBegins /\ CacheKey(Begun.op, Begun.args) \in DOMAIN cache
           => /\ call' = Idle
              /\ last'.exc = "none"
              /\ last'.val = cache[CacheKey(Begun.op, Begun.args)]
              /\ last'.posts = 0
              /\ cache' = cache
      ]_vars

\* get_contact_id has returned the cached ID 1 without a request, where the
\* service no longer has a contact with that ID.
C24_Witness ==
    /\ last.op = "get_contact_id"
    /\ last.exc = "none"
    /\ last.val = 1
    /\ last.posts = 0
    /\ remote \in {RemoteReplaced, RemoteEmpty}

\* --------------------------------------------------------------- C25

\* C25: in a worker's set_enrolment_status the request follows the read of
\* the log and the write follows a request the service accepted; the log
\* changes in the two statements of the write and in no other step, so a
\* call whose request fails leaves the log as it was.
C25_WriteAfterAcceptedUpdate ==
    [][ /\ \A p \in DOMAIN callers :
               LET c == callers[p]
                   d == callers'[p]
               IN  /\ d.pc = "post" /\ c.pc # "post"
                          => c.pc = "read" /\ status_log' = status_log
                   /\ d.pc = "write" /\ c.pc # "write"
                          => /\ c.pc = "post"
                             /\ d.http \in 200..399
                             /\ status_log' = status_log
                   /\ c.pc = "post" /\ d # c /\ d.http \notin 200..399
                          => /\ d.pc \in {"read", "done"}
                             /\ d.exc # "none"
                             /\ status_log' = status_log
        /\ status_log' # status_log
               => \E p \in DOMAIN callers :
                      /\ callers[p].http \in 200..399
                      /\ \/ callers[p].pc = "write" /\ callers'[p].pc = "save"
                         \/ callers[p].pc = "save" /\ callers'[p].pc = "done"
      ]_vars

\* A worker's call for PASSED read the log with the enrolment at
\* IN_PROGRESS, had its request refused with 429 in every attempt and
\* raised; the log is as the worker read it.
C25_Witness ==
    \E p \in DOMAIN callers :
        LET c == callers[p]
        IN  /\ c.pc = "done"
            /\ c.exc = "LearndotAPIException"
            /\ c.http = 429
            /\ c.posts = LEARNDOT_RETRY_MAX_ATTEMPTS
            /\ c.args.status = "PASSED"
            /\ c.read_log = {[learndot_enrolment_id |-> 1,
                              status |-> "IN_PROGRESS"]}
            /\ status_log = c.read_log

\* --------------------------------------------------------------- C26

\* The enrollments of the run created within its range.
InRange(fields) ==
    {i \in DOMAIN fields.enrollments :
        /\ fields.enrollments[i].created <= fields.start
        /\ fields.enrollments[i].created >= fields.end}

\* C26, as stated: the command run with a date range processes only the
\* enrollments created within it, so a run whose range holds no enrollment
\* makes no call of the client and leaves the status log as it is.
C26_OnlyEnrollmentsInRange ==
    [][ /\ task'.name = Handle
        /\ task'.pc # "done"
        /\ InRange(task'.fields) = {}
        => /\ call' = Idle
           /\ last' = last
           /\ status_log' = status_log ]_vars

\* --------------------------------------------------------------- C27

ValidStatuses ==
    {"APPROVED", "CANCELLED", "CONFIRMED", "FAILED", "IN_PROGRESS", "MISSED",
     "PASSED", "TENTATIVE"}

\* C27: an unconditional set_enrolment_status for an enrolment and a valid
\* status sends the request in every attempt, whatever the log holds.  The
\* command hands the client its force option as `unconditional`, and the
\* signal handler hands it False.
C27_UnconditionalAlwaysSends ==
    /\ /\ Ended(SetStatus)
       /\ last.args.unconditional
       /\ last.args.status \in ValidStatuses
       /\ last.args.enrolment_id \notin {None, 0}
       => last.posts = last.attempts
    /\ task.name \in {Handle, CheckIfEnrolment} /\ task.op = SetStatus
       => /\ task.args.unconditional = task.fields.unconditional
          /\ task.args.status = "PASSED"
    /\ task.name = ListenForPassingGrade /\ task.op = SetStatus
       => /\ task.args.unconditional = FALSE
          /\ task.args.status = "PASSED"

\* The command run with --force has had its update refused with 404 for an
\* enrolment the log holds at PASSED: the request was sent all the same.
C27_Witness ==
    /\ task.name = Handle
    /\ task.fields.unconditional
    /\ task.pc = "done"
    /\ Ended(SetStatus)
    /\ last.args.unconditional
    /\ last.http = 404
    /\ last.posts = 1
    /\ [learndot_enrolment_id |-> last.args.enrolment_id,
        status |-> last.args.status] \in status_log

\* --------------------------------------------------------------- C28

\* The call that ended last met HTTP 429, 502 or 504 in every attempt
\* before its last one, and 200 in that.
TransientThenAccepted ==
    /\ last.op \in {"get_contact_id", "get_enrolment_id", SetStatus}
    /\ last.transient_before
    /\ last.http = 200

C29_WarningPerRetryOnly ==
    last.op \in {"get_contact_id", "get_enrolment_id", SetStatus}
    => /\ last.warnings >= last.attempts - 1
       /\ last.exc # "none" /\ last.http \in {400, 404}
              => last.warnings = last.attempts - 1

\* --------------------------------------------------------------- C30

\* The two dates the record is sorted by: its expiryDate, and its modified
\* or else its created date; "" for a date it has not.
SortDates(e) ==
    << IF HasNo(e, "expiryDate") THEN <<>> ELSE e.expiryDate,
       IF ~HasNo(e, "modified") THEN e.modified
       ELSE IF ~HasNo(e, "created") THEN e.created
       ELSE <<>> >>

\* C30: the list sort_enrolments_by_expiry returns is a permutation of its
\* input in which records with the same sort dates, which compare equal,
\* are in the order of the input (the ids of the input are its positions).
C30_StableSort ==
    Sorted /\ sort_output.exc = "none" =>
        /\ SortedAll
        /\ \A i, j \in DOMAIN sort_output.val :
               i < j /\ SortDates(sort_output.val[i]) = SortDates(sort_output.val[j])
                   => sort_output.val[i].id < sort_output.val[j].id

\* Two records without any date, with a record that expires between them in
\* the input, are the last two of the output in their input order.
C30_Witness ==
    /\ SortedAll
    /\ Len(sort_input) = 3
    /\ SortDates(sort_input[1]) = << <<>>, <<>> >>
    /\ SortDates(sort_input[3]) = << <<>>, <<>> >>
    /\ ~HasNo(sort_input[2], "expiryDate")
    /\ sort_output.val = <<sort_input[2], sort_input[1], sort_input[3]>>

\* --------------------------------------------------------------- C31

\* The record has no expiryDate, no modified and no created date.
Dateless(e) ==
    HasNo(e, "expiryDate") /\ HasNo(e, "modified") /\ HasNo(e, "created")

\* In the list returned, the records with neither modified nor created come
\* after all the records without expiryDate that have one of them.
DatelessLast ==
    \A i, j \in DOMAIN sort_output.val :
        Dateless(sort_output.val[i]) /\ Keyless(sort_output.val[j]) => j < i

\* C31, as stated: the records lacking expiryDate are returned in ascending
\* order of their effective timestamp (modified, or created where modified
\* is absent or empty), and those with neither come after all the others.
C31_Original ==
    Sorted /\ sort_output.exc = "none" =>
        /\ SortedAll
        /\ DatelessLast
        /\ \A i, j \in DOMAIN sort_output.val :
               /\ Keyless(sort_output.val[i]) /\ Keyless(sort_output.val[j])
               /\ i < j
               => DateLeq(dateutil_parse(FallbackDate(sort_output.val[i])).val,
                          dateutil_parse(FallbackDate(sort_output.val[j])).val)

\* C31, amended: the same, for effective timestamps that are all written
\* in the one zero padded format; the records with neither modified nor
\* created come after the others whatever the format.
C31_ByEffectiveTimestamp ==
    Sorted /\ sort_output.exc = "none" =>
        /\ SortedAll
        /\ DatelessLast
        /\ (\A k \in DOMAIN sort_input :
                Keyless(sort_input[k]) => ZeroPaddedFallback(sort_input[k]))
           => \A i, j \in DOMAIN sort_output.val :
                  /\ Keyless(sort_output.val[i]) /\ Keyless(sort_output.val[j])
                  /\ i < j
                  => DateLeq(
                         dateutil_parse(FallbackDate(sort_output.val[i])).val,
                         dateutil_parse(FallbackDate(sort_output.val[j])).val)

\* A record with no date at all came first, then one created in March and
\* one modified in January: the sort returned them in the opposite order.
C31_Witness ==
    /\ SortedAll
    /\ Len(sort_input) = 3
    /\ Dateless(sort_input[1])
    /\ sort_input[2] = [id |-> 2, created |-> Date_2018_03_01]
    /\ sort_input[3] = [id |-> 3, modified |-> Date_2018_01_01]
    /\ sort_output.val = <<sort_input[3], sort_input[2], sort_input[1]>>

\* --------------------------------------------------------------- C32

EntryPoints == {ListenForPassingGrade, Handle}

\* The learner and the component the entry point is at.
Learner ==
    IF task.name = ListenForPassingGrade THEN task.fields.user
    ELSE task.fields.enrollments[task.fields.i].user

Component ==
    IF task.name = ListenForPassingGrade
    THEN task.fields.course_mappings[task.fields.i]
    ELSE task.fields.enrollments[task.fields.i].component_id

\* The entry point makes the call op in this step.
Issues(op) ==
    /\ task.name \in EntryPoints
    /\ task.pc = "call"
    /\ task.op = op
    /\ task'.pc = "wait"

\* The learner's contact resolution has returned this ID: it is the one the
\* cache holds under the learner's key (only get_contact_id writes there).
ContactResolved(contact_id) ==
    /\ contact_id # None
    /\ contact_cache_key(Learner) \in DOMAIN cache
    /\ cache[contact_cache_key(Learner)] = contact_id

\* The enrolment resolution for the contact and the component has returned
\* this ID.
EnrolmentResolved(contact_id, enrolment_id) ==
    /\ enrolment_id # None
    /\ enrolment_cache_key(contact_id, Component) \in DOMAIN cache
    /\ cache[enrolment_cache_key(contact_id, Component)] = enrolment_id

\* C32: in the signal handler and in the command, after a contact
\* resolution that returned no contact ID the entry point ends or goes on
\* to the next learner's contact resolution, with no enrolment search and
\* no status update; an enrolment search is made only with the contact ID
\* resolved for the learner, and a status update only for the enrolment ID
\* resolved for that contact and the component.
C32_ResolvedBeforeUpdate ==
    [][ /\ ( /\ task.name \in EntryPoints
             /\ task.pc = "wait"
             /\ task.op = "get_contact_id"
             /\ call = Idle
             /\ last.exc = "none"
             /\ last.val = None
             => /\ call' = Idle
                /\ \/ task'.pc = "done"
                   \/ task'.pc = "call" /\ task'.op = "get_contact_id" )
        /\ (Issues("get_enrolment_id")
                => ContactResolved(task.args.contact_id))
        /\ (Issues("set_enrolment_status")
                => \E contact_id \in ContactIds :
                       /\ ContactResolved(contact_id)
                       /\ EnrolmentResolved(contact_id,
                                            task.args.enrolment_id)) ]_vars

\* The command has gone through the unknown learner, whose contact
\* resolution returned None, and then updated the enrolment of the known
\* learner: one status update at the service, in two contact resolutions.
C32_Witness ==
    /\ task.name = Handle
    /\ task.pc = "done"
    /\ Len(task.fields.enrollments) = 2
    /\ task.fields.enrollments[1].user = User_unknown
    /\ task.fields.enrollments[2].user = User_test
    /\ last.op = "set_enrolment_status"
    /\ last.exc = "none"
    /\ last.posts = 1
    /\ contact_cache_key(User_unknown) \notin DOMAIN cache
    /\ 1 \in DOMAIN remote_status

\* --------------------------------------------------------------- C33

\* The answer of the enrolment search with its cancelled records removed.
WithoutCancelled ==
    JsonOf(SelectSeq(remote.enrolment_search.results,
                     LAMBDA e : e.status # "CANCELLED"))

\* A call of op ends in this step.
Ends(op) ==
    /\ call' = Idle
    /\ last'.op = op
    /\ call # Idle \/ last' # last

\* C33: get_enrolment_id returns the ID, or fails with the exception and
\* the message, that it would with the cancelled records removed from the
\* answer of the search: a cancelled record, whatever its dates, changes
\* neither the ID returned nor whether the call fails.
C33_CancelledIgnored ==
    [][ Ends("get_enrolment_id") =>
            LET http == IF last'.http = -1 THEN 200 ELSE last'.http
                r == get_enrolment_id(State, last'.args.contact_id,
                                      last'.args.component_id,
                                      Response(http, WithoutCancelled))
            IN  /\ last'.exc = r.exc
                /\ last'.val = r.val
                /\ last'.msg = r.msg ]_vars

\* The search gave two enrolments in progress and a cancelled one whose
\* date cannot be parsed, and the call returned an ID.
C33_Witness ==
    /\ last.op = "get_enrolment_id"
    /\ last.posts = 1
    /\ last.exc = "none"
    /\ last.val # None
    /\ Len(remote.enrolment_search.results) = 3
    /\ \E i \in 1..3 :
           /\ remote.enrolment_search.results[i].status = "CANCELLED"
           /\ remote.enrolment_search.results[i].expiryDate = Date_HA_NO
           /\ \A j \in 1..3 \ {i} :
                  remote.enrolment_search.results[j].status # "CANCELLED"

\* --------------------------------------------------------------- C34

Cmp(a, b) == compare_enrolment_sort_keys(a, b)

\* C34: compare_enrolment_sort_keys is a total preorder on the key tuples.
\* What it returned for (a, b) is the opposite of what it returns for
\* (b, a), it returns 0 for (a, a), and with every key c: a <= b and
\* b <= c give a <= c, and c <= a and a <= b give c <= b.
C34_TotalPreorder ==
    Compared2 =>
        LET a == compare_input[1]
            b == compare_input[2]
            r == compare_output.val
        IN  /\ compare_output.exc = "none"
            /\ r \in {-1, 0, 1}
            /\ r = 0 - Cmp(b, a)
            /\ a = b => r = 0
            /\ Cmp(a, a) = 0
            /\ \A c \in KeyTuples :
                   /\ r <= 0 /\ Cmp(b, c) <= 0 => Cmp(a, c) <= 0
                   /\ Cmp(c, a) <= 0 /\ r <= 0 => Cmp(c, b) <= 0

\* A key with one date was compared with a longer key that begins with the
\* same date, and came after it.
C34_Witness ==
    /\ Compared2
    /\ Len(compare_input[1]) = 1
    /\ Len(compare_input[2]) = 3
    /\ compare_input[1][1] # <<>>
    /\ compare_input[2][1] = compare_input[1][1]
    /\ compare_input[2][3] # <<>>
    /\ compare_output.val = 1

\* --------------------------------------------------------------- C35

\* A worker's call had the service accept this status for the enrolment.
Confirmed(enrolment_id, status) ==
    \E p \in DOMAIN callers :
        /\ callers[p].args.enrolment_id = enrolment_id
        /\ callers[p].args.status = status
        /\ callers[p].posts >= 1
        /\ callers[p].http \in 200..399

\* C35, as stated: in every state, every row of the status log holds a
\* status of the enum EnrolmentStatus that the service accepted in an
\* update for the row's enrolment; no row has an empty or unconfirmed
\* status.
C35_LogHoldsConfirmedStatus ==
    \A r \in status_log :
        /\ r.status \in StatusEnum
        /\ Confirmed(r.learndot_enrolment_id, r.status)

\* --------------------------------------------------------------- C36

\* The row of the enrolment in the log.
RowOf(log, enrolment_id) ==
    CHOOSE r \in log : r.learndot_enrolment_id = enrolment_id

\* The worker's call has returned after the service accepted its update.
ReturnedAccepted(c) ==
    /\ c.pc = "done"
    /\ c.exc = "none"
    /\ c.posts >= 1
    /\ c.http \in 200..399

\* The workers p and q have called for the same enrolment with different
\* statuses.
Conflicting(p, q) ==
    /\ p # q
    /\ callers[p].args.enrolment_id = callers[q].args.enrolment_id
    /\ callers[p].args.status # callers[q].args.status

\* C36, as stated: when two calls for the same enrolment with different
\* statuses have both had their update accepted and have both returned
\* (no other worker calling), the log holds for the enrolment the status
\* the service holds, that of the update applied last.
C36_LogAgreesAtRest ==
    \A p, q \in DOMAIN callers :
        /\ Conflicting(p, q)
        /\ ReturnedAccepted(callers[p]) /\ ReturnedAccepted(callers[q])
        /\ \A o \in DOMAIN callers \ {p, q} : callers[o].pc = "idle"
        => /\ callers[p].args.enrolment_id \in LoggedIds(status_log)
           /\ RowOf(status_log, callers[p].args.enrolment_id).status
                  = remote_status[callers[p].args.enrolment_id]

\* --------------------------------------------------------------- C37

\* An attempt of a lookup, made in this step, returned None or raised.
LookupGaveNoId ==
    \/ call' # Idle /\ call' # call /\ call'.op \in Lookups
    \/ \E op \in Lookups :
           Ends(op) /\ (last'.exc # "none" \/ last'.val = None)

\* C37: an attempt of get_contact_id or get_enrolment_id that returns None
\* or raises leaves the cache as it was; an entry comes into the cache only
\* as the ID that a lookup returns after asking the service, under the key
\* of that lookup; and the call after a lookup that asked the service and
\* gave no ID, made for the same key, asks the service again.
C37_FailureNotCached ==
    [][ /\ LookupGaveNoId => cache' = cache
        /\ \A k \in DOMAIN cache' :
               k \notin DOMAIN cache \/ cache'[k] # cache[k]
               => \E op \in Lookups :
                      /\ Ends(op)
                      /\ last'.exc = "none"
                      /\ last'.val # None
                      /\ last'.posts >= 1
                      /\ k = CacheKey(op, last'.args)
                      /\ cache'[k] = last'.val
        /\ /\ LookupBegins
           /\ last.op = Begun.op
           /\ last.args = Begun.args
           /\ last.posts >= 1
           /\ last.exc # "none" \/ last.val = None
           => Begun.posts >= 1
      ]_vars

\* get_contact_id asked the service and returned None, where the cache
\* holds the enrolment ID of an earlier lookup and nothing else.
C37_Witness ==
    /\ last.op = "get_contact_id"
    /\ last.exc = "none"
    /\ last.val = None
    /\ last.posts = 1
    /\ DOMAIN cache = {enrolment_cache_key(1, 2)}

====
